---- MODULE Spec2Model ----
(***************************************************************************)
(* Model of the WooSync reconciliation and batch-synchronization engine    *)
(* (woo_sync/models/woo_sync_cron.py) for one connected instance.          *)
(*                                                                         *)
(* Spec      the full-sync driver (_run_full_sync), the manual single-item *)
(*           sync (sync_specific_product) and the per-template unit        *)
(*           (_sync_one_template and the create / update paths), split at  *)
(*           the remote calls; the local catalog and the remote shop       *)
(*           change between runs.                                          *)
(* A unit's database work happens in the transaction tx; store is what is  *)
(* committed.  cr.commit() copies tx to store, cr.rollback() copies store  *)
(* to tx.                                                                  *)
(***************************************************************************)
EXTENDS Integers, Sequences, FiniteSets, TLC

\* ------------------------------------------------------------------ bounds
\* Number of local templates of the catalog.
NT == 3
\* Clean barcode / SKU values are 1..MaxBarcode; b + MaxBarcode is b with
\* surrounding whitespace; 0 is the empty value.
MaxBarcode == 1
\* Most variants a template can have.
MaxVariants == 2
\* Disturbances allowed in a behaviour: catalog edits, configuration
\* changes, remote deletions, and remote calls that fail.
MaxDisturbances == 1
\* Full-sync runs and manual syncs allowed.
MaxRuns == 2
\* Templates per chunk (500 in the source, scaled so that a run has a chunk
\* boundary).
CHUNK_SIZE == 2
\* Products per page of the remote listing (100 in the source, scaled).
PER_PAGE == 2

\* Variants of the template whose variations are compared, and the remote
\* variation ids a variant mapping can hold (0 included).
MaxVariantIds == 4
MaxWooVariation == 2
\* Most items a routine has to send in batches.
MaxItems == 120
\* Most connected instances besides the one the engine is followed for.
MaxOtherInstances == 1

\* ------------------------------------------------------- program constants
MAX_CRON_SECONDS == 50 * 60

\* Time a remote call can take (none, exactly the budget, more than the
\* budget); TimeCap bounds the clock of the model.
Durations == {0, MAX_CRON_SECONDS, MAX_CRON_SECONDS + 1}
TimeCap == MAX_CRON_SECONDS + 1

Templates == 1..NT
RawBarcodes == 0..(2 * MaxBarcode)
NoMapping == 0
EmptyIndex == << >>

VARIABLES
    \* local catalog and instance configuration
    tmpl,                    \* template id -> [active, barcode, vbars, lines]
    sync_archived_as_draft,
    \* remote shop
    remote,                  \* set of [id, sku, type]
    nextWoo,                 \* next remote product id
    \* mapping store and log, committed and in the open transaction
    store, tx, nextId, log, txlog,
    \* a run of _run_full_sync / sync_specific_product
    pc, mode, cache, index, template_ids, i, idx, now,
    success_count, error_count, skipped_timeout,
    \* the unit in progress (_sync_one_template)
    cur, is_variable, ev,
    \* bookkeeping of what happened, read by the properties only
    run, disturbances, attempted, posts, created, fail, prevQuiet, prevTrunc,
    lastStart, lastFinish, last, calls, wrote, raised,
    \* what the last action_woo_push_product answered
    push,
    \* the local variables of a routine examined on its own
    locals

catalogVars == <<tmpl, sync_archived_as_draft>>
remoteVars == <<remote, nextWoo>>
dbVars == <<store, tx, nextId, log, txlog>>
runVars == <<pc, mode, cache, index, template_ids, i, idx, now,
             success_count, error_count, skipped_timeout>>
unitVars == <<cur, is_variable, ev>>
histVars == <<run, disturbances, attempted, posts, created, fail, prevQuiet,
              prevTrunc, lastStart, lastFinish, last, calls, wrote, raised>>
engineVars == <<catalogVars, remoteVars, dbVars, runVars, unitVars, histVars,
                push>>
vars == <<engineVars, locals>>

\* ----------------------------------------------------------------- helpers
Range(s) == {s[k] : k \in DOMAIN s}

Min(a, b) == IF a < b THEN a ELSE b

SetMax(S) == CHOOSE x \in S : \A y \in S : y <= x

\* The elements of a set of records, ordered by their id field.
RECURSIVE SortById(_)
SortById(S) ==
    IF S = {} THEN << >>
    ELSE LET m == CHOOSE x \in S : \A y \in S : x.id <= y.id
         IN  <<m>> \o SortById(S \ {m})

\* str.strip(): a value with surrounding whitespace loses it.
\* Of the values 0..(2 * clean), 0 is no value, 1..clean are clean values
\* and clean + k is the value k with whitespace around it.
StripOf(b, clean) == IF b > clean THEN b - clean ELSE b

Strip(b) == StripOf(b, MaxBarcode)

\* ------------------------------------------------------------ local catalog
Variants(t) == tmpl[t].vbars

\* A classification by the number of variants alone.
HasSeveralVariants(t) == Len(Variants(t)) > 1

\* _is_variable_product: bool(attribute_line_ids) and len(variants) > 1.
IsVariableProduct(t) == tmpl[t].lines # 0 /\ Len(Variants(t)) > 1

\* ------------------------------------------------------------ mapping store
MappingsOf(st, t) == {m \in st : m.tmpl = t}

\* A store without the uniqueness constraints.
NoSqlConstraints(st, t, woo) == FALSE

\* The unique(instance_id, product_tmpl_id) and unique(instance_id,
\* woo_product_id) constraints of woo.sync.template.mapping: would a new row
\* (t, woo) be refused?
ViolatesSqlConstraints(st, t, woo) ==
    \E m \in st : m.tmpl = t \/ m.woo = woo

NewMapping(t, woo, wtype) ==
    [id |-> nextId, tmpl |-> t, woo |-> woo, wtype |-> wtype,
     last_sync_date |-> run]

\* mapping.last_sync_date = fields.Datetime.now(), the time being that of
\* the run in progress.
Stamp(txs, id) ==
    {IF m.id = id THEN [m EXCEPT !.last_sync_date = run] ELSE m : m \in txs}

LogEntry(type, status, t, truncated) ==
    [sync_type |-> type, status |-> status, tmpl |-> t, truncated |-> truncated]

\* A cache that misses the mappings of the store.
BuildCacheNoMappings(st) ==
    [tmpl_map |-> [t \in Templates |-> NoMapping],
     unmapped |-> {t \in Templates : tmpl[t].active}]

\* _build_cache: tmpl_map (template -> mapping record, here its id) and the
\* active templates without a mapping.
BuildCache(st) ==
    [tmpl_map |-> [t \in Templates |->
                     IF MappingsOf(st, t) = {} THEN NoMapping
                     ELSE SetMax({m.id : m \in MappingsOf(st, t)})],
     unmapped |-> {t \in Templates : tmpl[t].active /\ MappingsOf(st, t) = {}}]

\* _build_single_product_cache: search(..., limit=1) for the one template.
BuildSingleProductCache(st, t) ==
    [tmpl_map |-> [u \in Templates |->
                     IF u = t /\ MappingsOf(st, t) # {}
                     THEN (CHOOSE m \in MappingsOf(st, t) :
                             \A o \in MappingsOf(st, t) : m.id <= o.id).id
                     ELSE NoMapping],
     unmapped |-> IF MappingsOf(st, t) = {} THEN {t} ELSE {}]

\* -------------------------------------------------------- remote SKU index
IndexPut(ix, k, v) == [x \in (DOMAIN ix) \cup {k} |-> IF x = k THEN v ELSE ix[x]]

\* The loop body of _fetch_woo_sku_index over the products of the pages
\* read: sku = (p.get('sku') or '').strip(); if sku: sku_index[sku] = p.
RECURSIVE IndexProducts(_, _)
IndexProducts(ix, products) ==
    IF products = << >> THEN ix
    ELSE LET p == Head(products)
             sku == Strip(p.sku)
         IN  IndexProducts(IF sku # 0 THEN IndexPut(ix, sku, p) ELSE ix,
                           Tail(products))

NumPages == (Cardinality(remote) + PER_PAGE - 1) \div PER_PAGE

\* _fetch_woo_sku_index when the first k pages are read (a page that fails
\* or is empty ends the loop; what was read is kept).
FetchWooSkuIndex(k) ==
    LET listing == SortById(remote)
        n == Min(k * PER_PAGE, Len(listing))
    IN  IndexProducts(EmptyIndex, SubSeq(listing, 1, n))

\* sync_specific_product: the barcodes to look up, and the index built from
\* the lookups that answered (those of the barcodes in answered).
SkusToCheck(t) ==
    {b \in {tmpl[t].barcode} \cup Range(Variants(t)) : b # 0}

LookupWooSkuIndex(answered) ==
    IndexProducts(EmptyIndex,
                  SortById({p \in remote : p.sku \in answered}))

NoProduct == [id |-> 0, sku |-> 0, type |-> "none"]

\* A match that looks at the variants before the template.
MatchVariantsFirst(template, ix, clean) ==
    LET hits == {k \in DOMAIN template.vbars :
                   template.vbars[k] # 0
                   /\ StripOf(template.vbars[k], clean) \in DOMAIN ix}
    IN  IF DOMAIN ix = {} THEN NoProduct
        ELSE IF hits # {}
        THEN ix[StripOf(template.vbars[CHOOSE k \in hits :
                                         \A o \in hits : k <= o], clean)]
        ELSE IF template.barcode # 0
                /\ StripOf(template.barcode, clean) \in DOMAIN ix
        THEN ix[StripOf(template.barcode, clean)]
        ELSE NoProduct

\* _match_by_barcode, for a template given by its barcode and the barcodes
\* of its variants.
MatchByBarcodeIn(template, ix, clean) ==
    IF DOMAIN ix = {} THEN NoProduct
    ELSE IF template.barcode # 0
            /\ StripOf(template.barcode, clean) \in DOMAIN ix
    THEN ix[StripOf(template.barcode, clean)]
    ELSE LET hits == {k \in DOMAIN template.vbars :
                        template.vbars[k] # 0
                        /\ StripOf(template.vbars[k], clean) \in DOMAIN ix}
         IN  IF hits = {} THEN NoProduct
             ELSE ix[StripOf(template.vbars[CHOOSE k \in hits :
                                              \A o \in hits : k <= o],
                             clean)]

\* _match_by_barcode.
MatchByBarcode(t, ix) == MatchByBarcodeIn(tmpl[t], ix, MaxBarcode)

\* ------------------------------------------------- the per-template unit
\* What a stretch of a unit's code ends in: it reaches a remote call (goto),
\* returns (ok) or raises (err).  tx, txlog, cache are the transaction and
\* the cache as that stretch leaves them, made the mappings it created.
Goto(p, txs, txl, c, e, made) ==
    [k |-> "goto", pc |-> p, tx |-> txs, txlog |-> txl, cache |-> c,
     ev |-> e, made |-> made]
Ok(txs, txl, c, e, made) ==
    [k |-> "ok", pc |-> "", tx |-> txs, txlog |-> txl, cache |-> c,
     ev |-> e, made |-> made]
Err(txs, txl, c, e) ==
    [k |-> "err", pc |-> "", tx |-> txs, txlog |-> txl, cache |-> c,
     ev |-> Append(e, "raise"), made |-> 0]

\* The events of a remote call and its answer.
Answer(call, resp) == IF resp = "ok" THEN <<call>> ELSE <<call, resp>>

CachePut(c, t, id) == [c EXCEPT !.tmpl_map[t] = id]

SuccessLog(t) == LogEntry("product", "success", t, FALSE)

\* _map_existing_woo_product: the mapping to the remote record found by
\* barcode; the variations of a variable record are fetched next.
MapExistingWooProduct(t, p, txs, txl, c, e) ==
    IF ViolatesSqlConstraints(txs, t, p.id)
    THEN Err(txs, txl, c, Append(e, "integrity_error"))
    ELSE LET m == NewMapping(t, p.id,
                             IF p.type = "variable" THEN "variable" ELSE "simple")
             e2 == Append(e, "create_mapping")
         IN  IF p.type = "variable"
             THEN Goto("get_variations", txs \cup {m}, txl,
                       CachePut(c, t, m.id), e2, 1)
             ELSE Ok(txs \cup {m}, Append(txl, SuccessLog(t)),
                     CachePut(c, t, m.id), e2, 1)

\* A creation path that skips the barcode reconciliation.
CreateWooProductNoMatch(t, isvar, ix, txs, txl, c, e) ==
    IF ~isvar /\ Len(Variants(t)) = 0
    THEN Ok(txs, txl, c, e, 0)
    ELSE Goto("post_product", txs, txl, c, e, 0)

\* _create_woo_product, up to the POST of the product.
CreateWooProduct(t, isvar, ix, txs, txl, c, e) ==
    LET existing == MatchByBarcode(t, ix)
    IN  IF existing.id # 0
        THEN MapExistingWooProduct(t, existing, txs, txl, c, Append(e, "match"))
        ELSE IF isvar
        THEN Goto("post_product", txs, txl, c, e, 0)
        ELSE IF Len(Variants(t)) = 0
        THEN Ok(txs, txl, c, e, 0)
        ELSE Goto("post_product", txs, txl, c, e, 0)

\* _create_simple_product / _create_variable_product after the POST of the
\* product answered with the id woo.
RecordCreatedProduct(t, isvar, woo, txs, txl, c, e) ==
    IF ViolatesSqlConstraints(txs, t, woo)
    THEN Err(txs, txl, c, Append(e, "integrity_error"))
    ELSE LET m == NewMapping(t, woo, IF isvar THEN "variable" ELSE "simple")
             e2 == Append(e, "create_mapping")
         IN  IF isvar
             THEN Goto("post_variations", txs \cup {m}, txl,
                       CachePut(c, t, m.id), e2, 1)
             ELSE Ok(txs \cup {m}, Append(txl, SuccessLog(t)),
                     CachePut(c, t, m.id), e2, 1)

\* _update_woo_product, up to the PUT of the product.
UpdateWooProduct(t, txs, txl, c, e) ==
    IF Len(Variants(t)) = 0
    THEN Ok(txs, txl, c, e, 0)
    ELSE Goto("put_product", txs, txl, c, e, 0)

\* A unit that sends the draft status for every mapped archived template.
SyncOneTemplateIgnoresPolicy(t, ix, txs, txl, c) ==
    IF c.tmpl_map[t] # NoMapping
    THEN Goto("put_draft", txs, txl, c, << >>, 0)
    ELSE Ok(txs, txl, c, << >>, 0)

\* _sync_one_template, up to its first remote call.
SyncOneTemplate(t, ix, txs, txl, c) ==
    LET mapping == c.tmpl_map[t]
    IN  IF ~tmpl[t].active
        THEN IF mapping # NoMapping /\ sync_archived_as_draft
             THEN Goto("put_draft", txs, txl, c, << >>, 0)
             ELSE Ok(txs, txl, c, << >>, 0)
        ELSE IF mapping = NoMapping
        THEN CreateWooProduct(t, IsVariableProduct(t), ix, txs, txl, c, << >>)
        ELSE UpdateWooProduct(t, txs, txl, c, << >>)

\* The decision of section 4.3 for template t.
Decision(t, ix, c) ==
    IF c.tmpl_map[t] # NoMapping THEN "AlreadyMapped"
    ELSE IF ~tmpl[t].active THEN "Skip"
    ELSE IF MatchByBarcode(t, ix).id # 0 THEN "MatchFound"
    ELSE "Create"

\* A recovery that leaves the stale mapping in the store.
RecoverWithoutUnlink(t, isvar, txs, txl, c, e) ==
    CreateWooProduct(t, isvar, EmptyIndex, txs, txl,
                     CachePut(c, t, NoMapping), Append(e, "pop"))

\* _update_woo_product when the PUT reports not-found: mapping.unlink(),
\* cache pop, then the creation path with an empty index.
RecoverStaleMapping(t, isvar, txs, txl, c, e) ==
    LET gone == {m \in txs : m.id = c.tmpl_map[t]}
    IN  CreateWooProduct(t, isvar, EmptyIndex, txs \ gone, txl,
                         CachePut(c, t, NoMapping),
                         e \o <<"unlink", "pop">>)

\* ------------------------------------------------------- commit / rollback
NoUnit == [t |-> 0, ok |-> TRUE, ev |-> << >>]

\* Loops that carry the cache of the finished chunk into the next one.
NextPositionKeepsCache(c) ==
    /\ cache' = c
    /\ i' = IF idx + 1 >= Min(i + CHUNK_SIZE, Len(template_ids))
            THEN i + CHUNK_SIZE ELSE i
    /\ idx' = idx + 1
    /\ pc' = IF idx + 1 >= Min(i + CHUNK_SIZE, Len(template_ids))
             THEN "chunk" ELSE "loop"

\* The two for loops of _run_full_sync after a template is done: the next
\* template of the chunk, or the end of the chunk (cache rebuilt from the
\* store, next chunk).
NextPosition(c) ==
    IF idx + 1 >= Min(i + CHUNK_SIZE, Len(template_ids))
    THEN /\ cache' = BuildCache(store')
         /\ i' = i + CHUNK_SIZE
         /\ idx' = idx + 1
         /\ pc' = "chunk"
    ELSE /\ cache' = c
         /\ i' = i
         /\ idx' = idx + 1
         /\ pc' = "loop"

\* try: ... cr.commit(); success_count += 1 (full sync, manual sync).
CommitUnit(t, r, md) ==
    /\ store' = r.tx
    /\ tx' = r.tx
    /\ log' = log \o r.txlog
    /\ txlog' = << >>
    /\ last' = [t |-> t, ok |-> TRUE, ev |-> r.ev]
    /\ IF md = "full"
       THEN /\ success_count' = success_count + 1
            /\ NextPosition(r.cache)
            /\ UNCHANGED raised
       ELSE /\ pc' = "manual_end"
            /\ cache' = r.cache
            /\ raised' = FALSE
            /\ UNCHANGED <<success_count, i, idx>>
    /\ UNCHANGED error_count

\* A failure handler that commits the failed unit's work with the error log.
RollbackUnitKeepsWork(t, r, md) ==
    /\ store' = r.tx
    /\ tx' = r.tx
    /\ log' = Append(log, LogEntry("product", "error", t, FALSE))
    /\ txlog' = << >>
    /\ last' = [t |-> t, ok |-> FALSE, ev |-> r.ev]
    /\ IF md = "full"
       THEN /\ error_count' = error_count + 1
            /\ NextPosition(r.cache)
            /\ UNCHANGED raised
       ELSE /\ pc' = "manual_end"
            /\ cache' = r.cache
            /\ raised' = TRUE
            /\ UNCHANGED <<error_count, i, idx>>
    /\ UNCHANGED success_count

\* except: cr.rollback(); _create_log(error); cr.commit(); error_count += 1
\* (full sync) or raise (manual sync).
RollbackUnit(t, r, md) ==
    /\ store' = store
    /\ tx' = store
    /\ log' = Append(log, LogEntry("product", "error", t, FALSE))
    /\ txlog' = << >>
    /\ last' = [t |-> t, ok |-> FALSE, ev |-> r.ev]
    /\ IF md = "full"
       THEN /\ error_count' = error_count + 1
            /\ NextPosition(r.cache)
            /\ UNCHANGED raised
       ELSE /\ pc' = "manual_end"
            /\ cache' = r.cache
            /\ raised' = TRUE
            /\ UNCHANGED <<error_count, i, idx>>
    /\ UNCHANGED success_count

\* The effect of a stretch of the unit of template t that ended in r.
Apply(t, r, md) ==
    /\ nextId' = nextId + r.made
    /\ created' = created + r.made
    /\ wrote' = IF r.tx # tx THEN wrote \cup {t} ELSE wrote
    /\ CASE r.k = "goto" ->
              /\ pc' = r.pc
              /\ tx' = r.tx
              /\ txlog' = r.txlog
              /\ cache' = r.cache
              /\ ev' = r.ev
              /\ cur' = t
              /\ UNCHANGED <<store, log, i, idx, success_count, error_count,
                             last, lastFinish, raised>>
         [] r.k = "ok" ->
              /\ CommitUnit(t, r, md)
              /\ ev' = << >>
              /\ cur' = 0
              /\ lastFinish' = now'
         [] r.k = "err" ->
              /\ RollbackUnit(t, r, md)
              /\ ev' = << >>
              /\ cur' = 0
              /\ lastFinish' = now'

\* ------------------------------------------------------------------- Init
SimpleProfile == [active |-> TRUE, barcode |-> 0, vbars |-> <<1>>, lines |-> 0]
VariableProfile == [active |-> TRUE, barcode |-> 0, vbars |-> <<0, 0>>, lines |-> 1]

\* The shop was seeded independently: one product per clean SKU, of either
\* type.
SeededShops ==
    {{[id |-> b, sku |-> b, type |-> ty[b]] : b \in 1..MaxBarcode} :
       ty \in [1..MaxBarcode -> {"simple", "variable"}]}

NoLocals == [fn |-> "none"]

NoPush == [failed |-> FALSE, success_count |-> 0, result |-> "none"]

\* An action that reports the failure for any one instance.
PushFailsOnAnyFailure(failed, others) ==
    [failed |-> failed,
     success_count |-> others + (IF failed THEN 0 ELSE 1),
     result |-> IF failed THEN "user_error" ELSE "notified"]

\* action_woo_push_product after its loop over the connected instances:
\* sync_specific_product raised for this instance or not, and returned for
\* `others` of the other instances. UserError when it returned for none,
\* the success notification otherwise.
ActionWooPushProduct(failed, others) ==
    LET succeeded == others + (IF failed THEN 0 ELSE 1)
    IN  [failed |-> failed,
         success_count |-> succeeded,
         result |-> IF succeeded = 0 THEN "user_error" ELSE "notified"]

NoCache == [tmpl_map |-> [t \in Templates |-> NoMapping], unmapped |-> {}]

\* What a run holds in local variables, before it starts and after it
\* returns.
NoRun(c, ix, ids, ci, pos, clock, ok, err, skipped) ==
    /\ c = NoCache /\ ix = EmptyIndex /\ ids = << >>
    /\ ci = 0 /\ pos = 0 /\ clock = 0
    /\ ok = 0 /\ err = 0 /\ skipped = FALSE

NoHistory(att, np, nc, f, ls, lf, l, cs, ws, r) ==
    /\ att = << >> /\ np = 0 /\ nc = 0 /\ f = FALSE
    /\ ls = 0 /\ lf = 0 /\ l = NoUnit /\ cs = {} /\ ws = {} /\ r = FALSE

EngineInit ==
    /\ tmpl \in [Templates -> {SimpleProfile, VariableProfile}]
    /\ sync_archived_as_draft = TRUE
    /\ remote \in SeededShops
    /\ nextWoo = MaxBarcode + 1
    /\ store = {} /\ tx = {} /\ nextId = 1 /\ log = << >> /\ txlog = << >>
    /\ pc = "idle" /\ mode = "full"
    /\ NoRun(cache, index, template_ids, i, idx, now,
             success_count, error_count, skipped_timeout)
    /\ cur = 0 /\ is_variable = FALSE /\ ev = << >>
    /\ run = 0 /\ disturbances = 0
    /\ prevQuiet = FALSE /\ prevTrunc = FALSE
    /\ NoHistory(attempted, posts, created, fail, lastStart, lastFinish,
                 last, calls, wrote, raised)
    /\ push = NoPush

Init == EngineInit /\ locals = NoLocals

\* --------------------------------------------------------- _run_full_sync
\* A run without a time budget.
BudgetNeverExceeded == FALSE

\* if time.time() - start_time > MAX_CRON_SECONDS
BudgetExceeded == now > MAX_CRON_SECONDS

\* A disturbance is counted when the environment chooses one.
Disturb(chosen) ==
    IF chosen
    THEN /\ disturbances < MaxDisturbances
         /\ disturbances' = disturbances + 1
    ELSE UNCHANGED disturbances

\* Lines 60-82: cache, SKU index (only if a template is unmapped; the
\* listing may end early), the template ids.
StartFullSync ==
    /\ pc = "idle"
    /\ run < MaxRuns
    /\ \E k \in 0..NumPages, d \in Durations :
         LET c == BuildCache(store)
         IN  /\ c.unmapped = {} => (k = NumPages /\ d = 0)
             /\ cache' = c
             /\ index' = IF c.unmapped # {} THEN FetchWooSkuIndex(k)
                         ELSE EmptyIndex
             /\ fail' = (k < NumPages)
             /\ Disturb(k < NumPages)
             /\ now' = d
    /\ template_ids' = [k \in 1..NT |-> k]
    /\ mode' = "full"
    /\ pc' = "chunk"
    /\ i' = 0 /\ idx' = 0
    /\ success_count' = 0 /\ error_count' = 0 /\ skipped_timeout' = FALSE
    /\ run' = run + 1
    /\ UNCHANGED <<catalogVars, remoteVars, dbVars, unitVars,
                   prevQuiet, prevTrunc, attempted, posts, created,
                   lastStart, lastFinish, last, calls, wrote, raised, locals>>
    /\ push' = NoPush

\* A chunk loop that walks every chunk from the first template of the list.
ChunkHeadFromFirst ==
    /\ pc = "chunk"
    /\ IF i >= Len(template_ids)
       THEN /\ pc' = "summary"
            /\ UNCHANGED <<idx, skipped_timeout>>
       ELSE IF BudgetExceeded
       THEN /\ skipped_timeout' = TRUE
            /\ pc' = "summary"
            /\ UNCHANGED idx
       ELSE /\ pc' = "loop"
            /\ idx' = 0
            /\ UNCHANGED skipped_timeout
    /\ UNCHANGED <<catalogVars, remoteVars, dbVars, mode, cache, index,
                   template_ids, i, now, success_count, error_count,
                   unitVars, histVars, locals, push>>

\* for i in range(0, len(template_ids), CHUNK_SIZE): the elapsed-time check
\* between chunks.
ChunkHead ==
    /\ pc = "chunk"
    /\ IF i >= Len(template_ids)
       THEN /\ pc' = "summary"
            /\ UNCHANGED <<idx, skipped_timeout>>
       ELSE IF BudgetExceeded
       THEN /\ skipped_timeout' = TRUE
            /\ pc' = "summary"
            /\ UNCHANGED idx
       ELSE /\ pc' = "loop"
            /\ idx' = i
            /\ UNCHANGED skipped_timeout
    /\ UNCHANGED <<catalogVars, remoteVars, dbVars, mode, cache, index,
                   template_ids, i, now, success_count, error_count,
                   unitVars, histVars, locals, push>>

\* A template of the chunk is started: _sync_one_template up to its first
\* remote call, committed or rolled back if it makes none.
StartUnit(t, flag) ==
    /\ is_variable' = (tmpl[t].active /\ IsVariableProduct(t))
    /\ attempted' = Append(attempted,
                           [tmpl |-> t, decision |-> Decision(t, index, cache)])
    /\ lastStart' = now
    /\ now' = now
    /\ skipped_timeout' = flag
    /\ Apply(t, SyncOneTemplate(t, index, tx, txlog, cache), mode)
    /\ UNCHANGED <<catalogVars, remoteVars, mode, index, template_ids,
                   run, disturbances, posts, fail, prevQuiet, prevTrunc, calls,
                   locals, push>>

BeginTemplate ==
    /\ pc = "loop"
    /\ ~BudgetExceeded
    /\ StartUnit(template_ids[idx + 1], skipped_timeout)

\* A check inside the chunk that notes the timeout and goes on.
TimeoutInnerNoBreak ==
    /\ pc = "loop"
    /\ BudgetExceeded
    /\ StartUnit(template_ids[idx + 1], TRUE)

\* The elapsed-time check between the templates of a chunk: break, then the
\* end of the chunk.
TimeoutInner ==
    /\ pc = "loop"
    /\ BudgetExceeded
    /\ skipped_timeout' = TRUE
    /\ cache' = BuildCache(store)
    /\ i' = i + CHUNK_SIZE
    /\ pc' = "chunk"
    /\ UNCHANGED <<catalogVars, remoteVars, dbVars, mode, index, template_ids,
                   idx, now, success_count, error_count, unitVars, histVars,
                   locals, push>>

\* A run that returns without a summary when it was cut short.
SummaryUnlessTruncated ==
    /\ pc = "summary"
    /\ log' = IF skipped_timeout THEN log
              ELSE Append(log, [sync_type |-> "full", status |-> "success",
                                tmpl |-> 0, truncated |-> FALSE,
                                success_count |-> success_count,
                                error_count |-> error_count])
    /\ pc' = "idle"
    /\ prevQuiet' = ~fail
    /\ prevTrunc' = skipped_timeout
    /\ NoRun(cache', index', template_ids', i', idx', now',
             success_count', error_count', skipped_timeout')
    /\ NoHistory(attempted', posts', created', fail', lastStart', lastFinish',
                 last', calls', wrote', raised')
    /\ UNCHANGED <<catalogVars, remoteVars, store, tx, nextId, txlog, mode,
                   unitVars, run, disturbances, locals, push>>

\* The message of the summary log entry: the counts, and whether it carries
\* the timeout marker.
SummaryEntry ==
    [sync_type |-> "full", status |-> "success", tmpl |-> 0,
     truncated |-> skipped_timeout,
     success_count |-> success_count, error_count |-> error_count]

\* Lines 124-131: the summary log entry, committed; the run returns.
Summary ==
    /\ pc = "summary"
    /\ log' = Append(log, SummaryEntry)
    /\ pc' = "idle"
    /\ prevQuiet' = ~fail
    /\ prevTrunc' = skipped_timeout
    /\ NoRun(cache', index', template_ids', i', idx', now',
             success_count', error_count', skipped_timeout')
    /\ NoHistory(attempted', posts', created', fail', lastStart', lastFinish',
                 last', calls', wrote', raised')
    /\ UNCHANGED <<catalogVars, remoteVars, store, tx, nextId, txlog, mode,
                   unitVars, run, disturbances, locals, push>>

\* ------------------------------------------------------------ remote calls
\* A remote call of the unit in progress takes d and answers resp; an
\* answer the environment chooses to be a failure is a disturbance.
RemoteCall(d, resp) ==
    /\ now + d <= TimeCap
    /\ now' = now + d
    /\ calls' = calls \cup {cur}
    /\ fail' = (fail \/ resp # "ok")
    /\ Disturb(resp \in {"reject", "exc"})

unitFrame == <<catalogVars, mode, index, template_ids, skipped_timeout,
               is_variable, run, attempted, prevQuiet, prevTrunc, lastStart,
               locals, push>>

CachedMapping(t) == {m \in tx : m.id = cache.tmpl_map[t]}

RemoteHas(woo) == \E p \in remote : p.id = woo

\* How the shop can answer a PUT on a product: not-found exactly when the
\* product is gone.
PutResponses(t) ==
    IF \E m \in CachedMapping(t) : RemoteHas(m.woo)
    THEN {"ok", "reject", "exc"}
    ELSE {"notfound", "exc"}

\* result = self._woo_post(api, 'products', data) and what follows it in
\* _create_simple_product / _create_variable_product.
PostProduct ==
    /\ pc = "post_product"
    /\ \E resp \in {"ok", "reject", "exc"}, d \in Durations :
         /\ RemoteCall(d, resp)
         /\ posts' = posts + 1
         /\ IF resp = "ok"
            THEN /\ remote' = remote \cup
                       {[id |-> nextWoo,
                         sku |-> IF is_variable THEN 0 ELSE Variants(cur)[1],
                         type |-> IF is_variable THEN "variable" ELSE "simple"]}
                 /\ nextWoo' = nextWoo + 1
                 /\ Apply(cur, RecordCreatedProduct(cur, is_variable, nextWoo,
                             tx, txlog, cache, Append(ev, "post")), mode)
            ELSE /\ UNCHANGED remoteVars
                 /\ Apply(cur, Err(tx, txlog, cache,
                                   ev \o Answer("post", resp)), mode)
    /\ UNCHANGED unitFrame

\* The variation batch calls of _create_variable_product, then its log.
PostVariations ==
    /\ pc = "post_variations"
    /\ \E resp \in {"ok", "reject", "exc"}, d \in Durations :
         /\ RemoteCall(d, resp)
         /\ IF resp = "exc"
            THEN Apply(cur, Err(tx, txlog, cache,
                                ev \o Answer("batch", resp)), mode)
            ELSE Apply(cur, Ok(tx, Append(txlog, SuccessLog(cur)), cache,
                               ev \o Answer("batch", resp), 0), mode)
    /\ UNCHANGED <<unitFrame, remoteVars, posts>>

\* _fetch_all_variations and the variant mappings of
\* _map_existing_variations (a failed page ends the fetch), then the log of
\* _map_existing_woo_product.
GetVariations ==
    /\ pc = "get_variations"
    /\ \E resp \in {"ok", "exc"}, d \in Durations :
         /\ RemoteCall(d, resp)
         /\ Apply(cur, Ok(tx, Append(txlog, SuccessLog(cur)), cache,
                          ev \o Answer("get_variations", resp), 0), mode)
    /\ UNCHANGED <<unitFrame, remoteVars, posts>>

\* result = self._woo_put(api, f'products/{mapping.woo_product_id}', data)
\* and what follows it in _update_woo_product.
PutProduct ==
    /\ pc = "put_product"
    /\ \E resp \in PutResponses(cur), d \in Durations :
         /\ RemoteCall(d, resp)
         /\ CASE resp = "ok" ->
                   IF is_variable
                   THEN Apply(cur, Goto("update_variations",
                                        Stamp(tx, cache.tmpl_map[cur]), txlog,
                                        cache, Append(ev, "put"), 0), mode)
                   ELSE Apply(cur, Ok(Stamp(tx, cache.tmpl_map[cur]), txlog,
                                      cache, Append(ev, "put"), 0), mode)
              [] resp = "notfound" ->
                   Apply(cur, RecoverStaleMapping(cur, is_variable, tx, txlog,
                             cache, ev \o <<"put", "notfound">>), mode)
              [] OTHER ->
                   Apply(cur, Err(tx, txlog, cache, ev \o Answer("put", resp)),
                         mode)
    /\ UNCHANGED <<unitFrame, remoteVars, posts>>

\* _update_variations: its batch calls.
UpdateVariations ==
    /\ pc = "update_variations"
    /\ \E resp \in {"ok", "reject", "exc"}, d \in Durations :
         /\ RemoteCall(d, resp)
         /\ IF resp = "exc"
            THEN Apply(cur, Err(tx, txlog, cache,
                                ev \o Answer("batch", resp)), mode)
            ELSE Apply(cur, Ok(tx, txlog, cache,
                               ev \o Answer("batch", resp), 0), mode)
    /\ UNCHANGED <<unitFrame, remoteVars, posts>>

\* The status-only update of an archived template (lines 350-355): the
\* answer is not inspected, the mapping is stamped.
PutDraft ==
    /\ pc = "put_draft"
    /\ \E resp \in PutResponses(cur), d \in Durations :
         /\ RemoteCall(d, resp)
         /\ IF resp = "exc"
            THEN Apply(cur, Err(tx, txlog, cache,
                                ev \o Answer("put_draft", resp)), mode)
            ELSE Apply(cur, Ok(Stamp(tx, cache.tmpl_map[cur]), txlog, cache,
                               ev \o Answer("put_draft", resp), 0), mode)
    /\ UNCHANGED <<unitFrame, remoteVars, posts>>

\* ---------------------------------------------------- sync_specific_product
\* Lines 137-178: the narrow cache, the SKU lookups (each may fail), then
\* _sync_one_template up to its first remote call.
StartManual ==
    /\ pc = "idle"
    /\ run < MaxRuns
    /\ \E t \in Templates :
         LET c == BuildSingleProductCache(store, t)
             lookup == SkusToCheck(t) # {} /\ c.tmpl_map[t] = NoMapping
         IN  \E answered \in SUBSET SkusToCheck(t) :
               LET ix == IF lookup THEN LookupWooSkuIndex(answered)
                         ELSE EmptyIndex
               IN  /\ ~lookup => answered = SkusToCheck(t)
                   /\ index' = ix
                   /\ fail' = (answered # SkusToCheck(t))
                   /\ Disturb(answered # SkusToCheck(t))
                   /\ is_variable' = (tmpl[t].active /\ IsVariableProduct(t))
                   /\ attempted' = <<[tmpl |-> t, decision |-> Decision(t, ix, c)]>>
                   /\ now' = 0
                   /\ mode' = "manual"
                   /\ Apply(t, SyncOneTemplate(t, ix, tx, txlog, c), "manual")
    /\ run' = run + 1
    /\ prevQuiet' = FALSE
    /\ UNCHANGED <<catalogVars, remoteVars, prevTrunc, template_ids,
                   skipped_timeout, posts, calls, lastStart, locals>>
    /\ push' = NoPush

\* sync_specific_product returns, or raises what the unit raised, to the loop
\* of action_woo_push_product, which answers once it has gone through the
\* other connected instances too.
ManualReturn ==
    /\ pc = "manual_end"
    /\ pc' = "idle"
    /\ \E others \in 0..MaxOtherInstances :
         push' = ActionWooPushProduct(raised, others)
    /\ NoRun(cache', index', template_ids', i', idx', now',
             success_count', error_count', skipped_timeout')
    /\ NoHistory(attempted', posts', created', fail', lastStart', lastFinish',
                 last', calls', wrote', raised')
    /\ UNCHANGED <<catalogVars, remoteVars, dbVars, mode, unitVars, run,
                   disturbances, prevQuiet, prevTrunc, locals>>

\* ------------------------------------------------------------ environment
\* The profiles one edit of the local catalog away from profile f.
Edited(f) ==
    {[f EXCEPT !.active = ~f.active], [f EXCEPT !.lines = 1 - f.lines]}
    \cup {[f EXCEPT !.barcode = b] : b \in RawBarcodes \ {f.barcode}}
    \cup {[f EXCEPT !.vbars = Append(f.vbars, b)] :
            b \in IF Len(f.vbars) < MaxVariants THEN RawBarcodes ELSE {}}
    \cup {[f EXCEPT !.vbars = SubSeq(f.vbars, 1, Len(f.vbars) - 1)] :
            x \in IF Len(f.vbars) > 0 THEN {0} ELSE {}}
    \cup {[f EXCEPT !.vbars[k] = b] :
            k \in DOMAIN f.vbars, b \in RawBarcodes}

envFrame == <<dbVars, runVars, unitVars, run, attempted, posts, created,
              fail, prevTrunc, lastStart, lastFinish, last, calls, wrote,
              raised, locals, push>>

\* A user edits a template between runs.
LocalChange ==
    /\ pc = "idle"
    /\ \E t \in Templates :
         \E f \in Edited(tmpl[t]) :
           /\ f # tmpl[t]
           /\ tmpl' = [tmpl EXCEPT ![t] = f]
    /\ Disturb(TRUE)
    /\ prevQuiet' = FALSE
    /\ UNCHANGED <<sync_archived_as_draft, remoteVars, envFrame>>

\* The archive policy of the instance is switched.
ConfigChange ==
    /\ pc = "idle"
    /\ sync_archived_as_draft' = ~sync_archived_as_draft
    /\ Disturb(TRUE)
    /\ prevQuiet' = FALSE
    /\ UNCHANGED <<tmpl, remoteVars, envFrame>>

\* A product is deleted in the shop, behind the engine's back.
RemoteDelete ==
    /\ pc = "idle"
    /\ \E p \in remote : remote' = remote \ {p}
    /\ Disturb(TRUE)
    /\ prevQuiet' = FALSE
    /\ UNCHANGED <<catalogVars, nextWoo, envFrame>>

\* ------------------------------------------------------------------- Spec
Next ==
    \/ StartFullSync
    \/ ChunkHead
    \/ BeginTemplate
    \/ TimeoutInner
    \/ Summary
    \/ PostProduct
    \/ PostVariations
    \/ GetVariations
    \/ PutProduct
    \/ UpdateVariations
    \/ PutDraft
    \/ StartManual
    \/ ManualReturn
    \/ LocalChange
    \/ ConfigChange
    \/ RemoteDelete

Spec == Init /\ [][Next]_vars

\* SpecArchived: the engine some time after template 1 was created in the
\* shop by a simple-product POST and then archived; its remote product is
\* still there, or was deleted in the shop.
ArchivedProfile == [active |-> FALSE, barcode |-> 0, vbars |-> <<0>>, lines |-> 0]

EarlierProduct == [id |-> MaxBarcode + 1, sku |-> 0, type |-> "simple"]

EarlierMapping ==
    [id |-> 1, tmpl |-> 1, woo |-> EarlierProduct.id, wtype |-> "simple",
     last_sync_date |-> 0]

InitArchived ==
    /\ tmpl \in {f \in [Templates -> {SimpleProfile, VariableProfile,
                                      ArchivedProfile}] :
                   \A t \in Templates : f[t] = ArchivedProfile <=> t = 1}
    /\ sync_archived_as_draft = TRUE
    /\ \E shop \in SeededShops, left \in SUBSET {EarlierProduct} :
         remote = shop \cup left
    /\ nextWoo = EarlierProduct.id + 1
    /\ store = {EarlierMapping} /\ tx = {EarlierMapping}
    /\ nextId = EarlierMapping.id + 1
    /\ log = << >> /\ txlog = << >>
    /\ pc = "idle" /\ mode = "full"
    /\ NoRun(cache, index, template_ids, i, idx, now,
             success_count, error_count, skipped_timeout)
    /\ cur = 0 /\ is_variable = FALSE /\ ev = << >>
    /\ run = 0 /\ disturbances = 0
    /\ prevQuiet = FALSE /\ prevTrunc = FALSE
    /\ NoHistory(attempted, posts, created, fail, lastStart, lastFinish,
                 last, calls, wrote, raised)
    /\ push = NoPush
    /\ locals = NoLocals

SpecArchived == InitArchived /\ [][Next]_vars

\* The steps of a run in progress: the program goes on, and a remote call
\* returns or raises.
RunStep ==
    \/ ChunkHead
    \/ BeginTemplate
    \/ TimeoutInner
    \/ Summary
    \/ PostProduct
    \/ PostVariations
    \/ GetVariations
    \/ PutProduct
    \/ UpdateVariations
    \/ PutDraft
    \/ ManualReturn

FairSpec == Spec /\ WF_vars(RunStep)

\* ============================================ _update_variations, alone
\* SpecDiff: the work lists of _update_variations (lines 664-682) for every
\* live variant list and every set of variant mappings within the bounds.
VariantIds == 1..MaxVariantIds
WooVariationIds == 0..MaxWooVariation

\* The engine, not running, with the catalog and the shop fixed.
EngineAtRest ==
    /\ EngineInit
    /\ \A t \in Templates : tmpl[t] = SimpleProfile
    /\ \A p \in remote : p.type = "simple"

\* The elements of a set of numbers, ascending.
RECURSIVE Ascending(_)
Ascending(S) ==
    IF S = {} THEN << >>
    ELSE LET m == CHOOSE x \in S : \A y \in S : x <= y
         IN  <<m>> \o Ascending(S \ {m})

\* tmpl_mapping.variant_mapping_ids: at most one mapping per variant (the
\* unique(instance_id, product_id) constraint).
VariantMappingLists ==
    UNION {{[k \in 1..Cardinality(S) |->
               [product |-> Ascending(S)[k],
                woo_variation_id |-> f[Ascending(S)[k]]]] :
              f \in [S -> WooVariationIds]} :
           S \in SUBSET VariantIds}

\* A lookup that leaves the entry in the dict.
DictKeep(d, key) == d

\* dict.pop(key, None): the dict without the key.
DictPop(d, key) == SelectSeq(d, LAMBDA e : e.product # key)

\* for variant in template.product_variant_ids: vm = pop(variant.id);
\* update_list / create_list; then delete_ids from what is left.
RECURSIVE SplitVariants(_, _, _, _)
SplitVariants(vs, existing, update_list, create_list) ==
    IF vs = << >>
    THEN [update_list |-> update_list,
          create_list |-> create_list,
          existing_var_mappings |-> existing,
          delete_ids |-> [k \in DOMAIN existing |->
                            existing[k].woo_variation_id]]
    ELSE LET variant == Head(vs)
             hits == {k \in DOMAIN existing : existing[k].product = variant}
         IN  IF hits # {}
             THEN LET vm == existing[CHOOSE k \in hits : TRUE]
                  IN  SplitVariants(Tail(vs), DictPop(existing, variant),
                          Append(update_list,
                                 [variant |-> variant,
                                  id |-> vm.woo_variation_id]),
                          create_list)
             ELSE SplitVariants(Tail(vs), existing, update_list,
                                Append(create_list, variant))

InitDiff ==
    /\ EngineAtRest
    /\ \E S \in SUBSET VariantIds, M \in VariantMappingLists :
         locals = [fn |-> "_update_variations",
                   product_variant_ids |-> Ascending(S),
                   variant_mapping_ids |-> M,
                   done |-> FALSE,
                   update_list |-> << >>, create_list |-> << >>,
                   existing_var_mappings |-> M, delete_ids |-> << >>]

\* Lines 664-682 of _update_variations.
UpdateVariationsLists ==
    /\ locals.fn = "_update_variations"
    /\ ~locals.done
    /\ LET r == SplitVariants(locals.product_variant_ids,
                              locals.variant_mapping_ids, << >>, << >>)
       IN  locals' = [locals EXCEPT
                        !.done = TRUE,
                        !.update_list = r.update_list,
                        !.create_list = r.create_list,
                        !.existing_var_mappings = r.existing_var_mappings,
                        !.delete_ids = r.delete_ids]
    /\ UNCHANGED engineVars

NextDiff == UpdateVariationsLists

SpecDiff == InitDiff /\ [][NextDiff]_vars

\* ==================================================== the batch loops, alone
\* SpecBatch: for i in range(0, len(items), batch_size): items[i:i +
\* batch_size], the loop of every batch call of the engine, for every
\* configured batch size and number of items within the bounds.
ConfiguredBatchSizes == {-1, 0, 1, 7, 99, 100, 101, 250}

\* The batch loops of the engine: variation creation of a new variable
\* product, the update / create / delete batches of _update_variations, the
\* simple and the variation batches of the stock and price sync.
BatchSites == {"create_variable", "update", "create", "delete",
               "stock_simple", "stock_variations"}

\* The batch size as the instance configures it, uncapped.
ConfiguredBatchSize(configured) == configured

\* batch_size = min(instance.batch_size, 100)
BatchSize(configured) == Min(configured, 100)

\* items[i:i + batch_size] of a list of n items (i is 0-based).
Slice(items, from, to) == SubSeq(items, from + 1, Min(to, Len(items)))

InitBatch ==
    /\ EngineAtRest
    /\ \E site \in BatchSites, configured \in ConfiguredBatchSizes,
          n \in 0..MaxItems :
         locals = [fn |-> "batches", site |-> site, configured |-> configured,
                   items |-> [k \in 1..n |-> k],
                   state |-> "start", batch_size |-> 0, i |-> 0,
                   sent |-> << >>]

\* batch_size is computed and the loop is entered: range() raises
\* ValueError for a step of 0; the delete loop is skipped without ids.
StartBatches ==
    /\ locals.fn = "batches"
    /\ locals.state = "start"
    /\ LET batch_size == BatchSize(locals.configured)
       IN  locals' = [locals EXCEPT
                        !.batch_size = batch_size,
                        !.state = IF locals.site = "delete"
                                     /\ locals.items = << >>
                                  THEN "done"
                                  ELSE IF batch_size = 0 THEN "raised"
                                  ELSE "loop"]
    /\ UNCHANGED engineVars

\* range(0, n, batch_size) has a next value.
RangeHasNext == locals.batch_size > 0 /\ locals.i < Len(locals.items)

\* One batch call.
SendBatch ==
    /\ locals.fn = "batches"
    /\ locals.state = "loop"
    /\ RangeHasNext
    /\ LET batch == Slice(locals.items, locals.i,
                          locals.i + locals.batch_size)
       IN  locals' = [locals EXCEPT
                        !.sent = Append(@, Len(batch)),
                        !.i = @ + locals.batch_size]
    /\ UNCHANGED engineVars

\* The range is exhausted.
EndBatches ==
    /\ locals.fn = "batches"
    /\ locals.state = "loop"
    /\ ~RangeHasNext
    /\ locals' = [locals EXCEPT !.state = "done"]
    /\ UNCHANGED engineVars

NextBatch ==
    \/ StartBatches
    \/ SendBatch
    \/ EndBatches

SpecBatch == InitBatch /\ [][NextBatch]_vars

\* ================================================= the categories, alone
\* SpecCategory: _ensure_category_synced, called time after time for the
\* categories of the catalog, against a shop whose answers are not under the
\* engine's control.
NC == 3

MaxWooCategories == 3

Categories == 1..NC

CategoryNames == {"a", "A", "b"}

\* str.lower() on the names above.
Lower(name) == IF name = "A" THEN "a" ELSE name

\* cache['cat_map'].get(category.id)
CatMapGet(cat_map, c) ==
    IF \E m \in cat_map : m.category_id = c
    THEN (CHOOSE m \in cat_map : m.category_id = c).woo_category_id
    ELSE 0

\* The calls of _ensure_category_synced that category c sets off, outermost
\* ancestor first: the recursion stops at a cached category and at a root.
RECURSIVE CallChain(_, _, _)
CallChain(parent_id, cat_map, c) ==
    IF c = 0 \/ CatMapGet(cat_map, c) # 0 THEN << >>
    ELSE Append(CallChain(parent_id, cat_map, parent_id[c]), c)

\* The woo id the outermost call of the chain gets for its parent.
RECURSIVE ChainParent(_, _, _)
ChainParent(parent_id, cat_map, c) ==
    IF c = 0 THEN 0
    ELSE IF CatMapGet(cat_map, c) # 0 THEN CatMapGet(cat_map, c)
    ELSE ChainParent(parent_id, cat_map, parent_id[c])

\* _find_woo_category_by_name: the ids it can return, 0 for None (no
\* category of that name under the parent, or the search failed).
FindWooCategoryByName(woo_categories, name, parent) ==
    {0} \cup {w.id : w \in {x \in woo_categories :
                              x.parent = parent /\ Lower(x.name) = Lower(name)}}

InitCategory ==
    /\ EngineAtRest
    /\ \E names \in [Categories -> CategoryNames],
          parents \in {f \in [Categories -> 0..NC] :
                         \A c \in Categories : f[c] < c} :
         locals = [fn |-> "ensure_category", name |-> names,
                   parent_id |-> parents,
                   woo_categories |-> {}, next_woo |-> 1,
                   category_mappings |-> {}, tx_mappings |-> {},
                   cat_map |-> {}, pending |-> << >>, woo_parent_id |-> 0,
                   category |-> 0, posted |-> << >>,
                   state |-> "idle", raised |-> FALSE, via_search |-> FALSE]

\* A template of category c is synced, with the cache the unit before it
\* left (same chunk) or with a cache built from the committed mappings (new
\* chunk, new run): _ensure_category_synced(c) descends to the first call
\* that has to POST; a cached category returns at once.
EnsureCategorySynced ==
    /\ locals.fn = "ensure_category"
    /\ locals.state = "idle"
    /\ \E c \in Categories, rebuilt \in BOOLEAN :
         LET cat_map == IF rebuilt THEN locals.category_mappings
                        ELSE locals.cat_map
             chain == CallChain(locals.parent_id, cat_map, c)
         IN  locals' = [locals EXCEPT
                          !.cat_map = cat_map,
                          !.tx_mappings = locals.category_mappings,
                          !.pending = chain,
                          !.category = c,
                          !.posted = << >>,
                          !.woo_parent_id =
                              ChainParent(locals.parent_id, cat_map, c),
                          !.state = IF chain = << >> THEN "idle" ELSE "post",
                          !.raised = FALSE,
                          !.via_search = FALSE]
    /\ UNCHANGED engineVars

\* The mapping is created and the call returns to the call below it, or to
\* the unit, which commits.
CategoryMapped(c, woo_id, woo_categories, searched) ==
    LET mapped == locals.tx_mappings
                    \cup {[category_id |-> c, woo_category_id |-> woo_id]}
        rest == Tail(locals.pending)
    IN  locals' = [locals EXCEPT
                     !.woo_categories = woo_categories,
                     !.next_woo = IF searched THEN @ ELSE @ + 1,
                     !.tx_mappings = mapped,
                     !.cat_map = @ \cup {[category_id |-> c,
                                          woo_category_id |-> woo_id]},
                     !.posted = Append(@, [category_id |-> c,
                                           parent |-> locals.woo_parent_id,
                                           resp |-> IF searched THEN "reject"
                                                    ELSE "ok",
                                           searched |-> searched,
                                           woo_id |-> woo_id]),
                     !.category_mappings = IF rest = << >> THEN mapped ELSE @,
                     !.pending = rest,
                     !.woo_parent_id = woo_id,
                     !.state = IF rest = << >> THEN "idle" ELSE "post",
                     !.via_search = @ \/ searched]

\* The exception leaves the recursion and the unit, which rolls back; the
\* cache dict keeps what the calls that returned wrote into it.
CategoryRaised(searched) ==
    locals' = [locals EXCEPT
                 !.tx_mappings = locals.category_mappings,
                 !.posted = Append(@, [category_id |-> Head(locals.pending),
                                       parent |-> locals.woo_parent_id,
                                       resp |-> IF searched THEN "reject"
                                                ELSE "exc",
                                       searched |-> searched,
                                       woo_id |-> 0]),
                 !.pending = << >>,
                 !.woo_parent_id = 0,
                 !.state = "idle",
                 !.raised = TRUE]

\* POST products/categories for the outermost pending call and what follows
\* it: the new id, or the search by name, or the exception.
PostCategory ==
    /\ locals.fn = "ensure_category"
    /\ locals.state = "post"
    /\ LET c == Head(locals.pending)
           data == [name |-> locals.name[c], parent |-> locals.woo_parent_id]
       IN  \E resp \in {"ok", "reject", "exc"} :
             CASE resp = "ok" ->
                    /\ locals.next_woo <= MaxWooCategories
                    /\ CategoryMapped(c, locals.next_woo,
                                      locals.woo_categories
                                        \cup {[id |-> locals.next_woo,
                                               name |-> data.name,
                                               parent |-> data.parent]},
                                      FALSE)
               [] resp = "reject" ->
                    \E woo_id \in FindWooCategoryByName(
                                    locals.woo_categories, data.name,
                                    data.parent) :
                      IF woo_id = 0
                      THEN CategoryRaised(TRUE)
                      ELSE CategoryMapped(c, woo_id, locals.woo_categories,
                                          TRUE)
               [] resp = "exc" -> CategoryRaised(FALSE)
    /\ UNCHANGED engineVars

NextCategory ==
    \/ EnsureCategorySynced
    \/ PostCategory

SpecCategory == InitCategory /\ [][NextCategory]_vars

\* ======================================== the attributes and their values
\* SpecAttribute: _build_woo_attribute_lines for templates whose attribute
\* lines are taken from a small catalog of attributes and values, against a
\* shop whose answers are not under the engine's control.
NA == 2

NV == 2

MaxWooTerms == 3

Attributes == 1..NA

AttributeValues == 1..NV

AttributeNames == {"a", "A"}

\* cache['attr_map'].get(attribute.id)
AttrMapGet(attr_map, a) ==
    IF \E m \in attr_map : m.attribute_id = a
    THEN (CHOOSE m \in attr_map : m.attribute_id = a).woo_attribute_id
    ELSE 0

\* cache['val_map'].get(attr_value.id)
ValMapGet(val_map, v) ==
    IF \E m \in val_map : m.attribute_value_id = v
    THEN (CHOOSE m \in val_map : m.attribute_value_id = v).woo_term_id
    ELSE 0

\* _find_woo_attribute_by_name: the ids it can return, 0 for None.
FindWooAttributeByName(woo_attributes, name) ==
    {0} \cup {w.id : w \in {x \in woo_attributes :
                              Lower(x.name) = Lower(name)}}

\* A search for terms that looks under every remote attribute.
FindWooTermByNameUnscoped(woo_terms, woo_attr_id, name) ==
    {0} \cup {w.id : w \in {x \in woo_terms : Lower(x.name) = Lower(name)}}

\* _find_woo_term_by_name: the terms of the one remote attribute.
FindWooTermByName(woo_terms, woo_attr_id, name) ==
    {0} \cup {w.id : w \in {x \in woo_terms :
                              /\ x.attribute = woo_attr_id
                              /\ Lower(x.name) = Lower(name)}}

NoEnsureCall == [kind |-> "none"]

InitAttribute ==
    /\ EngineAtRest
    /\ \E names \in [Attributes -> AttributeNames],
          value_names \in [AttributeValues -> AttributeNames],
          owner \in {f \in [AttributeValues -> Attributes] :
                      \A v \in AttributeValues, w \in AttributeValues :
                        v <= w => f[v] <= f[w]} :
         locals = [fn |-> "attributes", name |-> names,
                   value_name |-> value_names, attribute_id |-> owner,
                   woo_attributes |-> {}, woo_terms |-> {}, next_woo |-> 1,
                   attribute_mappings |-> {}, value_mappings |-> {},
                   tx_attribute_mappings |-> {}, tx_value_mappings |-> {},
                   attr_map |-> {}, val_map |-> {},
                   pending |-> << >>, woo_attr_id |-> 0,
                   state |-> "idle", raised |-> FALSE, call |-> NoEnsureCall]

\* The calls the loop over the attribute lines makes, in order: the
\* attribute of a line, then each value of the line.
RECURSIVE LineCalls(_, _)
LineCalls(lines, owner) ==
    IF lines = << >> THEN << >>
    ELSE LET a == Head(lines)
             values == Ascending({v \in AttributeValues : owner[v] = a})
         IN  <<[kind |-> "attribute", id |-> a]>>
               \o [k \in DOMAIN values |-> [kind |-> "value", id |-> values[k]]]
               \o LineCalls(Tail(lines), owner)

\* A template with the attribute lines `lines` is synced, with the cache the
\* unit before it left or with a cache built from the committed mappings.
BuildWooAttributeLines ==
    /\ locals.fn = "attributes"
    /\ locals.state = "idle"
    /\ \E lines \in (SUBSET Attributes) \ {{}}, rebuilt \in BOOLEAN :
         locals' = [locals EXCEPT
                      !.attr_map = IF rebuilt THEN locals.attribute_mappings
                                   ELSE @,
                      !.val_map = IF rebuilt
                                  THEN {[attribute_value_id |->
                                             m.attribute_value_id,
                                         woo_term_id |-> m.woo_term_id] :
                                          m \in locals.value_mappings}
                                  ELSE @,
                      !.tx_attribute_mappings = locals.attribute_mappings,
                      !.tx_value_mappings = locals.value_mappings,
                      !.pending = LineCalls(Ascending(lines),
                                            locals.attribute_id),
                      !.woo_attr_id = 0,
                      !.state = "ensure",
                      !.raised = FALSE,
                      !.call = NoEnsureCall]
    /\ UNCHANGED engineVars

\* The call returned: the loop goes on, or the unit commits.
EnsureReturned(l) ==
    LET rest == Tail(l.pending)
    IN  IF rest # << >> THEN [l EXCEPT !.pending = rest]
        ELSE [l EXCEPT !.pending = rest,
                       !.attribute_mappings = l.tx_attribute_mappings,
                       !.value_mappings = l.tx_value_mappings,
                       !.state = "idle"]

\* The exception leaves the loop and the unit, which rolls back; the cache
\* dict keeps what the calls that returned wrote into it.
EnsureRaised(l) ==
    [l EXCEPT !.tx_attribute_mappings = l.attribute_mappings,
              !.tx_value_mappings = l.value_mappings,
              !.pending = << >>,
              !.woo_attr_id = 0,
              !.state = "idle",
              !.raised = TRUE]

\* The mapping of the attribute and its cache entry, then the return.
AttributeMapped(l, a, woo_id) ==
    IF \E m \in l.tx_attribute_mappings : m.attribute_id = a
    THEN EnsureRaised(l)
    ELSE EnsureReturned(
           [l EXCEPT
              !.tx_attribute_mappings =
                  @ \cup {[attribute_id |-> a, woo_attribute_id |-> woo_id]},
              !.attr_map =
                  @ \cup {[attribute_id |-> a, woo_attribute_id |-> woo_id]},
              !.woo_attr_id = woo_id])

\* _ensure_attribute_synced for the attribute the loop is at.
EnsureAttributeSynced ==
    /\ locals.fn = "attributes"
    /\ locals.state = "ensure"
    /\ Head(locals.pending).kind = "attribute"
    /\ LET a == Head(locals.pending).id
           cached == AttrMapGet(locals.attr_map, a)
           called(resp, searched, woo_id) ==
               [locals EXCEPT !.call = [kind |-> "attribute", id |-> a,
                                        scope |-> 0, resp |-> resp,
                                        searched |-> searched,
                                        woo_id |-> woo_id]]
       IN  IF cached # 0
           THEN locals' = EnsureReturned(
                            [called("cached", FALSE, cached)
                               EXCEPT !.woo_attr_id = cached])
           ELSE \E resp \in {"ok", "reject", "exc"} :
                  CASE resp = "ok" ->
                         /\ locals.next_woo <= MaxWooTerms
                         /\ locals' = AttributeMapped(
                              [called("ok", FALSE, locals.next_woo) EXCEPT
                                 !.woo_attributes =
                                     @ \cup {[id |-> locals.next_woo,
                                              name |-> locals.name[a]]},
                                 !.next_woo = @ + 1],
                              a, locals.next_woo)
                    [] resp = "reject" ->
                         \E woo_id \in FindWooAttributeByName(
                                         locals.woo_attributes,
                                         locals.name[a]) :
                           locals' =
                             IF woo_id = 0
                             THEN EnsureRaised(called("reject", TRUE, 0))
                             ELSE AttributeMapped(
                                    called("reject", TRUE, woo_id), a, woo_id)
                    [] resp = "exc" ->
                         locals' = EnsureRaised(called("exc", FALSE, 0))
    /\ UNCHANGED engineVars

\* The mapping of the value and its cache entry, then the return.
AttributeValueMapped(l, v, woo_id) ==
    IF \E m \in l.tx_value_mappings : m.attribute_value_id = v
    THEN EnsureRaised(l)
    ELSE EnsureReturned(
           [l EXCEPT
              !.tx_value_mappings =
                  @ \cup {[attribute_value_id |-> v, woo_term_id |-> woo_id,
                           woo_attribute_id |-> l.woo_attr_id]},
              !.val_map =
                  @ \cup {[attribute_value_id |-> v, woo_term_id |-> woo_id]}])

\* _ensure_attribute_value_synced for the value the loop is at, under the
\* remote attribute the line got.
EnsureAttributeValueSynced ==
    /\ locals.fn = "attributes"
    /\ locals.state = "ensure"
    /\ Head(locals.pending).kind = "value"
    /\ LET v == Head(locals.pending).id
           cached == ValMapGet(locals.val_map, v)
           called(resp, searched, woo_id) ==
               [locals EXCEPT !.call = [kind |-> "value", id |-> v,
                                        scope |-> locals.woo_attr_id,
                                        resp |-> resp,
                                        searched |-> searched,
                                        woo_id |-> woo_id]]
       IN  IF cached # 0
           THEN locals' = EnsureReturned(called("cached", FALSE, cached))
           ELSE \E resp \in {"ok", "reject", "exc"} :
                  CASE resp = "ok" ->
                         /\ locals.next_woo <= MaxWooTerms
                         /\ locals' = AttributeValueMapped(
                              [called("ok", FALSE, locals.next_woo) EXCEPT
                                 !.woo_terms =
                                     @ \cup {[id |-> locals.next_woo,
                                              attribute |-> locals.woo_attr_id,
                                              name |-> locals.value_name[v]]},
                                 !.next_woo = @ + 1],
                              v, locals.next_woo)
                    [] resp = "reject" ->
                         \E woo_id \in FindWooTermByName(
                                         locals.woo_terms, locals.woo_attr_id,
                                         locals.value_name[v]) :
                           locals' =
                             IF woo_id = 0
                             THEN EnsureRaised(called("reject", TRUE, 0))
                             ELSE AttributeValueMapped(
                                    called("reject", TRUE, woo_id), v, woo_id)
                    [] resp = "exc" ->
                         locals' = EnsureRaised(called("exc", FALSE, 0))
    /\ UNCHANGED engineVars

NextAttribute ==
    \/ BuildWooAttributeLines
    \/ EnsureAttributeSynced
    \/ EnsureAttributeValueSynced

SpecAttribute == InitAttribute /\ [][NextAttribute]_vars

\* The three _ensure_*_synced functions, each on its own catalog.
InitEnsure == InitCategory \/ InitAttribute

NextEnsure == NextCategory \/ NextAttribute

SpecEnsure == InitEnsure /\ [][NextEnsure]_vars

\* ========================================= the stock and price sync, alone
\* SpecStock: _run_stock_price_sync over the mapped simple products and the
\* mapped variable templates of an instance, every batch call answered as the
\* shop pleases.
MaxStockItems == 3

MaxStockTemplates == 2

StockBatchSizes == {0, 1, 2}

StockAnswers == {"ok", "reject", "exc"}

InitStock ==
    /\ EngineAtRest
    /\ \E configured \in StockBatchSizes, n \in 0..MaxStockItems,
          nt \in 0..MaxStockTemplates :
         \E variations \in [1..nt -> 0..MaxStockItems] :
           locals = [fn |-> "stock", configured |-> configured,
                     simple_batch |-> [x \in 1..n |-> x],
                     variable_mappings |-> variations,
                     state |-> "start", batch_size |-> 0,
                     i |-> 0, k |-> 1,
                     sent |-> << >>, log |-> << >>,
                     uncommitted |-> {}, rolled_back |-> << >>]

\* Lines 736-760: batch_size, the list of simple items, and the range of the
\* first loop, which raises ValueError for a step of 0.
StockStart ==
    /\ locals.fn = "stock"
    /\ locals.state = "start"
    /\ LET batch_size == BatchSize(locals.configured)
       IN  locals' = [locals EXCEPT
                        !.batch_size = batch_size,
                        !.state = IF batch_size = 0 THEN "raised"
                                  ELSE "simple"]
    /\ UNCHANGED engineVars

StockError(t) == [sync_type |-> "stock", status |-> "error", tmpl |-> t]

\* One simple batch (lines 761-771): the exception of the call is logged
\* and committed, and the loop goes on.
StockSimpleBatch ==
    /\ locals.fn = "stock"
    /\ locals.state = "simple"
    /\ locals.i < Len(locals.simple_batch)
    /\ \E resp \in StockAnswers :
         locals' = [locals EXCEPT
                      !.sent = Append(@, [kind |-> "simple", tmpl |-> 0,
                                          from |-> locals.i, resp |-> resp]),
                      !.log = IF resp = "exc" THEN Append(@, StockError(0))
                              ELSE @,
                      !.uncommitted = IF resp = "exc" THEN {} ELSE @,
                      !.i = @ + locals.batch_size]
    /\ UNCHANGED engineVars

\* The simple loop is over; the variable mappings are searched.
StockSimpleEnd ==
    /\ locals.fn = "stock"
    /\ locals.state = "simple"
    /\ ~(locals.i < Len(locals.simple_batch))
    /\ locals' = [locals EXCEPT !.state = "variable", !.i = 0, !.k = 1]
    /\ UNCHANGED engineVars

\* A handler around the whole loop: the first exception of a variation batch
\* is logged and ends the loop.
StockVariationBatchEndsLoop ==
    /\ locals.fn = "stock"
    /\ locals.state = "variable"
    /\ locals.k <= Len(locals.variable_mappings)
    /\ locals.i < locals.variable_mappings[locals.k]
    /\ \E resp \in StockAnswers :
         LET call == [kind |-> "variation", tmpl |-> locals.k,
                      from |-> locals.i, resp |-> resp]
             work == locals.uncommitted \cup {locals.k}
         IN  IF resp = "exc"
             THEN locals' = [locals EXCEPT
                               !.sent = Append(@, call),
                               !.rolled_back =
                                   Append(@, [tmpl |-> locals.k,
                                              work |-> work]),
                               !.uncommitted = {},
                               !.log = Append(@, StockError(locals.k)),
                               !.k = Len(locals.variable_mappings) + 1,
                               !.i = 0]
             ELSE locals' = [locals EXCEPT
                               !.sent = Append(@, call),
                               !.uncommitted = work,
                               !.i = @ + locals.batch_size]
    /\ UNCHANGED engineVars

\* One variation batch of the variable template in turn (lines 781-801);
\* its exception goes to the handler of the template (803-814): rollback,
\* log, commit, next template.
StockVariationBatch ==
    /\ locals.fn = "stock"
    /\ locals.state = "variable"
    /\ locals.k <= Len(locals.variable_mappings)
    /\ locals.i < locals.variable_mappings[locals.k]
    /\ \E resp \in StockAnswers :
         LET call == [kind |-> "variation", tmpl |-> locals.k,
                      from |-> locals.i, resp |-> resp]
             work == locals.uncommitted \cup {locals.k}
         IN  IF resp = "exc"
             THEN locals' = [locals EXCEPT
                               !.sent = Append(@, call),
                               !.rolled_back =
                                   Append(@, [tmpl |-> locals.k,
                                              work |-> work]),
                               !.uncommitted = {},
                               !.log = Append(@, StockError(locals.k)),
                               !.k = @ + 1,
                               !.i = 0]
             ELSE locals' = [locals EXCEPT
                               !.sent = Append(@, call),
                               !.uncommitted = work,
                               !.i = @ + locals.batch_size]
    /\ UNCHANGED engineVars

\* The batches of the template in turn are through: commit (line 802).
StockTemplateDone ==
    /\ locals.fn = "stock"
    /\ locals.state = "variable"
    /\ locals.k <= Len(locals.variable_mappings)
    /\ ~(locals.i < locals.variable_mappings[locals.k])
    /\ locals' = [locals EXCEPT !.uncommitted = {}, !.k = @ + 1, !.i = 0]
    /\ UNCHANGED engineVars

\* Lines 816-821: the routine returns.
StockReturn ==
    /\ locals.fn = "stock"
    /\ locals.state = "variable"
    /\ locals.k > Len(locals.variable_mappings)
    /\ locals' = [locals EXCEPT !.state = "done"]
    /\ UNCHANGED engineVars

NextStock ==
    \/ StockStart
    \/ StockSimpleBatch
    \/ StockSimpleEnd
    \/ StockVariationBatch
    \/ StockTemplateDone
    \/ StockReturn

SpecStock == InitStock /\ [][NextStock]_vars

\* SpecStockStore: the same routine, its lists read from the mapping tables:
\* the TemplateMappings of the instance, each with the active flag of its
\* template, whether the template has an active variant, and the active
\* flags of the variants of its VariantMappings.
StockMappingLists ==
    UNION {[1..n ->
              {[woo_product_type |-> "simple", active |-> a,
                has_variant |-> h, vms |-> << >>] : a, h \in BOOLEAN}
              \cup UNION {{[woo_product_type |-> "variable", active |-> a,
                            has_variant |-> TRUE, vms |-> v] :
                             a \in BOOLEAN, v \in [1..m -> BOOLEAN]} :
                           m \in 0..MaxStockItems}] :
           n \in 0..MaxStockTemplates}

\* search([('woo_product_type', '=', type),
\*         ('product_tmpl_id.active', '=', True)]), in id order.
SearchStockMappings(ms, type) ==
    LET Selected(m) == ms[m].woo_product_type = type /\ ms[m].active
    IN  SelectSeq([m \in 1..Len(ms) |-> m], Selected)

\* Lines 747-758: one entry for each simple mapping whose template has a
\* variant; the entry carries the mapping's woo_product_id.
SimpleBatch(ms) ==
    LET HasVariant(m) == ms[m].has_variant
    IN  SelectSeq(SearchStockMappings(ms, "simple"), HasVariant)

\* Every variant mapping gets an entry, whether its variant is active or not.
VariationsDataWithArchived(tm) == [k \in 1..Len(tm.vms) |-> k]

\* Lines 782-794: one entry for each variant mapping of the template mapping
\* whose variant is active; the entry carries the woo_variation_id.
VariationsData(tm) ==
    LET Active(k) == tm.vms[k]
    IN  SelectSeq([k \in 1..Len(tm.vms) |-> k], Active)

InitStockStore ==
    /\ EngineAtRest
    /\ \E configured \in StockBatchSizes, ms \in StockMappingLists :
         LET variable_ids == SearchStockMappings(ms, "variable")
             variations_data ==
                 [k \in 1..Len(variable_ids) |->
                    VariationsData(ms[variable_ids[k]])]
         IN  locals = [fn |-> "stock", configured |-> configured,
                       mappings |-> ms,
                       simple_batch |-> SimpleBatch(ms),
                       variable_ids |-> variable_ids,
                       variations_data |-> variations_data,
                       variable_mappings |->
                           [k \in 1..Len(variable_ids) |->
                              Len(variations_data[k])],
                       state |-> "start", batch_size |-> 0,
                       i |-> 0, k |-> 1,
                       sent |-> << >>, log |-> << >>,
                       uncommitted |-> {}, rolled_back |-> << >>]

SpecStockStore == InitStockStore /\ [][NextStock]_vars

\* ================================================ the barcode match, alone
\* SpecMatch: _match_by_barcode for every template barcode, list of variant
\* barcodes and SKU index over MatchBarcodes clean values.
MatchBarcodes == 2

MatchTemplates ==
    {[active |-> TRUE, barcode |-> b, vbars |-> vb, lines |-> 0] :
       b \in 0..(2 * MatchBarcodes),
       vb \in UNION {[1..n -> 0..(2 * MatchBarcodes)] : n \in 0..MaxVariants}}

\* The indexes _fetch_woo_sku_index can build: stripped, non-empty SKUs as
\* keys, under each key a product of that SKU.
MatchIndexes ==
    {[k \in keys |-> [id |-> k, sku |-> k, type |-> ty[k]]] :
       keys \in SUBSET (1..MatchBarcodes),
       ty \in [1..MatchBarcodes -> {"simple", "variable"}]}

InitMatch ==
    /\ EngineAtRest
    /\ \E template \in MatchTemplates, ix \in MatchIndexes :
         locals = [fn |-> "match", template |-> template,
                   woo_sku_index |-> ix,
                   state |-> "call", existing |-> NoProduct]

\* existing = self._match_by_barcode(template, woo_sku_index)
MatchCall ==
    /\ locals.fn = "match"
    /\ locals.state = "call"
    /\ locals' = [locals EXCEPT
                    !.existing = MatchByBarcodeIn(locals.template,
                                                  locals.woo_sku_index,
                                                  MatchBarcodes),
                    !.state = "returned"]
    /\ UNCHANGED engineVars

NextMatch == MatchCall

SpecMatch == InitMatch /\ [][NextMatch]_vars

\* ======================================= the variant mappings of a template
\* SpecVariants: one template through its syncs, with the VariantMappings of
\* its TemplateMapping: reconciliation to a product of the shop or creation,
\* then updates, the template edited in between.  Every call is answered as
\* the shop pleases.
MaxVariantSyncs == 2

MaxVariantEdits == 1

MaxLocalVariants == 4

VariantBatchSizes == {1, 2}

NoVariantStore == [woo_product_type |-> "none", vms |-> {}]

NoVariantCall == [kind |-> "none"]

NoVariantWork ==
    [update_list |-> << >>, create_list |-> << >>, delete_ids |-> << >>,
     i |-> 0]

\* What _match_by_barcode found for the template in the shop before its
\* first sync: nothing, a simple product, or a variable product with its
\* variations (an SKU may be empty or carry whitespace).
SeededWooProducts ==
    {[type |-> "none", variations |-> << >>],
     [type |-> "simple", variations |-> << >>]}
    \cup UNION {{[type |-> "variable",
                  variations |-> [k \in 1..n |-> [id |-> k, sku |-> f[k]]]] :
                   f \in [1..n -> RawBarcodes]} : n \in 0..MaxWooVariation}

\* template.product_variant_ids: the active variants, each with its barcode.
LocalVariantLists ==
    UNION {{[k \in 1..n |-> [id |-> k, barcode |-> f[k]]] :
              f \in [1..n -> RawBarcodes]} : n \in 0..MaxLocalVariants}

InitVariants ==
    /\ EngineAtRest
    /\ \E has_lines \in BOOLEAN, vs \in LocalVariantLists,
          woo \in SeededWooProducts, configured \in VariantBatchSizes :
         \* barcodes are read by the reconciliation of variations alone; at
         \* most MaxVariants variants carry one
         /\ \A k \in DOMAIN vs :
              vs[k].barcode # 0 => woo.type = "variable" /\ k <= MaxVariants
         /\ locals = [fn |-> "variants",
                      attribute_line_ids |-> has_lines,
                      product_variant_ids |-> vs,
                      next_variant |-> Len(vs) + 1,
                      woo |-> woo,
                      batch_size |-> BatchSize(configured),
                      store |-> NoVariantStore, tx |-> NoVariantStore,
                      pc |-> "idle", is_variable |-> FALSE,
                      work |-> NoVariantWork,
                      call |-> NoVariantCall, deleted |-> << >>,
                      raised |-> FALSE,
                      syncs |-> 0, edits |-> 0]

\* The unit returns and is committed.
VariantsCommit(l) ==
    [l EXCEPT !.store = l.tx, !.pc = "idle", !.work = NoVariantWork]

\* The unit raises and is rolled back.
VariantsRollback(l) ==
    [l EXCEPT !.tx = l.store, !.pc = "idle", !.work = NoVariantWork,
              !.raised = TRUE]

\* _is_variable_product for the template of this specification.
LocalIsVariable ==
    locals.attribute_line_ids /\ Len(locals.product_variant_ids) > 1

\* The first variant mapped with variation id 0 (lines 423-432, 523-530).
WithSimpleVariant(vms) ==
    vms \cup {[product_id |-> locals.product_variant_ids[1].id,
               woo_variation_id |-> 0]}

\* _create_woo_product when nothing matched: the POST of the product
\* answered, the mappings of _create_simple_product (lines 486-535) or the
\* TemplateMapping of _create_variable_product and its list of variations
\* to create (537-579).
CreateNewProduct(l) ==
    LET vs == l.product_variant_ids
        posted == [l EXCEPT !.call = [kind |-> "post_product"]]
    IN  IF l.is_variable
        THEN \E resp \in {"ok", "reject"} :
               locals' =
                 IF resp = "ok"
                 THEN [posted EXCEPT
                         !.woo.type = "variable",
                         !.tx.woo_product_type = "variable",
                         !.work.create_list = [k \in DOMAIN vs |-> vs[k].id],
                         !.pc = "post_variations"]
                 ELSE VariantsRollback(posted)
        ELSE IF vs = << >>
        THEN locals' = VariantsCommit(l)
        ELSE \E resp \in {"ok", "reject"} :
               locals' =
                 IF resp = "ok"
                 THEN VariantsCommit(
                        [posted EXCEPT
                           !.woo.type = "simple",
                           !.tx = [woo_product_type |-> "simple",
                                   vms |-> WithSimpleVariant({})]])
                 ELSE VariantsRollback(posted)

\* _sync_one_template for the unmapped template, up to its first variation
\* call: reconciliation to the product found (lines 403-437), or creation.
SyncUnmappedVariants ==
    /\ locals.fn = "variants"
    /\ locals.pc = "idle"
    /\ locals.syncs < MaxVariantSyncs
    /\ locals.tx.woo_product_type = "none"
    /\ LET l == [locals EXCEPT !.syncs = @ + 1, !.raised = FALSE,
                               !.call = NoVariantCall,
                               !.deleted = << >>,
                               !.is_variable = LocalIsVariable]
           vs == locals.product_variant_ids
       IN  IF locals.woo.type = "variable"
           THEN locals' = [l EXCEPT !.tx.woo_product_type = "variable",
                                    !.pc = "get_variations"]
           ELSE IF locals.woo.type = "simple"
           THEN locals' = VariantsCommit(
                  [l EXCEPT !.tx = [woo_product_type |-> "simple",
                                    vms |-> IF vs = << >> THEN {}
                                            ELSE WithSimpleVariant({})]])
           ELSE CreateNewProduct(l)
    /\ UNCHANGED engineVars

\* The dict woo_by_sku of _map_existing_variations: stripped, non-empty SKU
\* -> variation, a later variation replacing an earlier one of the same SKU.
RECURSIVE WooBySku(_, _)
WooBySku(d, woo_variations) ==
    IF woo_variations = << >> THEN d
    ELSE LET wv == Head(woo_variations)
             sku == Strip(wv.sku)
         IN  WooBySku(IF sku # 0 THEN IndexPut(d, sku, wv) ELSE d,
                      Tail(woo_variations))

\* The pages of _fetch_all_variations (a page that fails ends the fetch),
\* then the loop of _map_existing_variations over the variants, the log of
\* _map_existing_woo_product and the commit of the unit.
MapExistingVariations ==
    /\ locals.fn = "variants"
    /\ locals.pc = "get_variations"
    /\ LET all == locals.woo.variations
           pages == (Len(all) + PER_PAGE - 1) \div PER_PAGE
       IN  \E read \in 0..pages :
             LET woo_variations == SubSeq(all, 1, Min(read * PER_PAGE, Len(all)))
                 woo_by_sku == WooBySku(<< >>, woo_variations)
                 vs == locals.product_variant_ids
                 matched == {k \in DOMAIN vs :
                               /\ Strip(vs[k].barcode) # 0
                               /\ Strip(vs[k].barcode) \in DOMAIN woo_by_sku}
             IN  locals' = VariantsCommit(
                   [locals EXCEPT
                      !.call = [kind |-> "get_variations", pages |-> read],
                      !.tx.vms =
                          {[product_id |-> vs[k].id,
                            woo_variation_id |->
                                woo_by_sku[Strip(vs[k].barcode)].id] :
                             k \in matched}])
    /\ UNCHANGED engineVars

\* The id the remote side gives the variation it creates for a variant: an
\* id no seeded variation has, one per variant.
NewVariationId(product_id) == MaxWooVariation + product_id

\* The answers to a variation batch of n entries: a list of up to n result
\* entries, each with an id or without, or a list of n + 1 entries with ids.
BatchResponses(n) ==
    UNION {[1..m -> BOOLEAN] : m \in 0..n} \cup {[k \in 1..(n + 1) |-> TRUE]}

\* A loop over the result that gives up on the batch when an entry has no id.
MappedPositionsAllOrNone(resp, batch) ==
    IF \A pos \in DOMAIN resp : resp[pos]
    THEN {pos \in DOMAIN resp : pos <= Len(batch)}
    ELSE {}

\* for idx, created in enumerate(result.get('create', [])):
\*     if created.get('id') and idx < len(batch): the positions mapped.
MappedPositions(resp, batch) ==
    {pos \in DOMAIN resp : resp[pos] /\ pos <= Len(batch)}

\* A variant can have one VariantMapping (unique(instance_id, product_id)).
ViolatesVariantConstraint(vms, product_id) ==
    \E vm \in vms : vm.product_id = product_id

\* The next loop of _update_variations that has something to send, or the
\* end of the unit.
NextVariantPhase(l, after) ==
    IF after = "upd_update" /\ l.work.create_list # << >>
    THEN [l EXCEPT !.pc = "upd_create", !.work.i = 0]
    ELSE IF l.work.delete_ids # << >>
    THEN [l EXCEPT !.pc = "upd_delete", !.work.i = 0]
    ELSE VariantsCommit(l)

\* One create batch of variations and the loop over its result (lines
\* 581-595 and 701-716): the entry at idx that carries an id maps the
\* variant at idx of the batch.
CreateVariationBatch ==
    /\ locals.fn = "variants"
    /\ locals.pc \in {"post_variations", "upd_create"}
    /\ LET batch == Slice(locals.work.create_list, locals.work.i,
                          locals.work.i + locals.batch_size)
       IN  \/ locals' = VariantsRollback(
                [locals EXCEPT
                   !.call = [kind |-> "create", batch |-> batch,
                             answered |-> FALSE, resp |-> << >>]])
           \/ \E resp \in BatchResponses(Len(batch)) :
                LET mapped == MappedPositions(resp, batch)
                    made == {[product_id |-> batch[pos],
                              woo_variation_id |-> NewVariationId(batch[pos])] :
                               pos \in mapped}
                    sent == [locals EXCEPT
                               !.call = [kind |-> "create", batch |-> batch,
                                         answered |-> TRUE, resp |-> resp]]
                    done == [sent EXCEPT !.tx.vms = @ \cup made,
                                         !.work.i = @ + locals.batch_size]
                IN  locals' =
                      IF \E pos \in mapped :
                           ViolatesVariantConstraint(locals.tx.vms, batch[pos])
                      THEN VariantsRollback(sent)
                      ELSE IF done.work.i < Len(locals.work.create_list)
                      THEN done
                      ELSE IF locals.pc = "post_variations"
                      THEN VariantsCommit(done)
                      ELSE NextVariantPhase(done, "upd_create")
    /\ UNCHANGED engineVars

\* tmpl_mapping.variant_mapping_ids as the list SplitVariants reads.
ExistingVarMappings(vms) ==
    LET products == {vm.product_id : vm \in vms}
    IN  [k \in 1..Cardinality(products) |->
           LET vm == CHOOSE m \in vms : m.product_id = Ascending(products)[k]
           IN  [product |-> vm.product_id,
                woo_variation_id |-> vm.woo_variation_id]]

\* _update_woo_product for the mapped template (lines 607-660), the PUT of
\* the product answered, then the lists of _update_variations (662-682) if
\* the template is classified variable.
SyncMappedVariants ==
    /\ locals.fn = "variants"
    /\ locals.pc = "idle"
    /\ locals.syncs < MaxVariantSyncs
    /\ locals.tx.woo_product_type # "none"
    /\ LET l == [locals EXCEPT !.syncs = @ + 1, !.raised = FALSE,
                               !.call = NoVariantCall,
                               !.deleted = << >>,
                               !.is_variable = LocalIsVariable]
           vs == locals.product_variant_ids
           put == [l EXCEPT !.call = [kind |-> "put_product"]]
       IN  IF vs = << >>
           THEN locals' = VariantsCommit(l)
           ELSE \E resp \in {"ok", "reject", "notfound"} :
                  CASE resp = "reject" -> locals' = VariantsRollback(put)
                    [] resp = "notfound" ->
                         CreateNewProduct(
                           [put EXCEPT !.tx = NoVariantStore,
                                       !.woo = [type |-> "none",
                                                variations |-> << >>]])
                    [] resp = "ok" ->
                         IF ~l.is_variable
                         THEN locals' = VariantsCommit(put)
                         ELSE LET r == SplitVariants(
                                         [k \in DOMAIN vs |-> vs[k].id],
                                         ExistingVarMappings(locals.tx.vms),
                                         << >>, << >>)
                                  listed == [put EXCEPT
                                               !.work =
                                                 [update_list |-> r.update_list,
                                                  create_list |-> r.create_list,
                                                  delete_ids |-> r.delete_ids,
                                                  i |-> 0]]
                              IN  locals' =
                                    IF r.update_list # << >>
                                    THEN [listed EXCEPT !.pc = "upd_update"]
                                    ELSE NextVariantPhase(listed, "upd_update")
    /\ UNCHANGED engineVars

\* One update batch (lines 688-699); its answer only stamps sync dates.
UpdateVariationBatch ==
    /\ locals.fn = "variants"
    /\ locals.pc = "upd_update"
    /\ LET batch == Slice(locals.work.update_list, locals.work.i,
                          locals.work.i + locals.batch_size)
       IN  \E resp \in {"ok", "reject", "exc"} :
             LET sent == [locals EXCEPT
                            !.call = [kind |-> "update", batch |-> batch,
                                      resp |-> resp],
                            !.work.i = @ + locals.batch_size]
             IN  locals' =
                   IF resp = "exc" THEN VariantsRollback(sent)
                   ELSE IF sent.work.i < Len(locals.work.update_list)
                   THEN sent
                   ELSE NextVariantPhase(sent, "upd_update")
    /\ UNCHANGED engineVars

\* One delete batch (lines 718-723) and, after the last one, the unlink of
\* the mappings whose variation id is in delete_ids (724-727).
DeleteVariationBatch ==
    /\ locals.fn = "variants"
    /\ locals.pc = "upd_delete"
    /\ LET batch == Slice(locals.work.delete_ids, locals.work.i,
                          locals.work.i + locals.batch_size)
       IN  \E resp \in {"ok", "reject", "exc"} :
             LET sent == [locals EXCEPT
                            !.call = [kind |-> "delete", batch |-> batch,
                                      resp |-> resp],
                            !.deleted = Append(@, batch),
                            !.work.i = @ + locals.batch_size]
             IN  locals' =
                   IF resp = "exc" THEN VariantsRollback(sent)
                   ELSE IF sent.work.i < Len(locals.work.delete_ids)
                   THEN sent
                   ELSE VariantsCommit(
                          [sent EXCEPT
                             !.tx.vms =
                                 {vm \in @ : vm.woo_variation_id
                                        \notin Range(locals.work.delete_ids)}])
    /\ UNCHANGED engineVars

\* Between two syncs the template is edited: its attribute lines are set or
\* cleared, a variant is added, or some variants are archived (an archived
\* variant leaves product_variant_ids and keeps its VariantMapping).
EditVariants ==
    /\ locals.fn = "variants"
    /\ locals.pc = "idle"
    /\ locals.edits < MaxVariantEdits
    /\ locals.syncs < MaxVariantSyncs
    /\ LET l == [locals EXCEPT !.edits = @ + 1]
           vs == locals.product_variant_ids
       IN  \/ locals' = [l EXCEPT !.attribute_line_ids = ~@]
           \/ /\ Len(vs) < MaxLocalVariants
              /\ locals' = [l EXCEPT
                              !.product_variant_ids =
                                  Append(@, [id |-> locals.next_variant,
                                             barcode |-> 0]),
                              !.next_variant = @ + 1]
           \/ \E gone \in SUBSET {vs[k].id : k \in DOMAIN vs} :
                /\ gone # {}
                /\ locals' = [l EXCEPT
                                !.product_variant_ids =
                                    SelectSeq(@, LAMBDA v : v.id \notin gone)]
    /\ UNCHANGED engineVars

NextVariants ==
    \/ SyncUnmappedVariants
    \/ MapExistingVariations
    \/ CreateVariationBatch
    \/ SyncMappedVariants
    \/ UpdateVariationBatch
    \/ DeleteVariationBatch
    \/ EditVariants

SpecVariants == InitVariants /\ [][NextVariants]_vars

\* category.parent_id and the parents above it.
RECURSIVE Ancestors(_, _)
Ancestors(parent_id, c) ==
    IF parent_id[c] = 0 THEN {}
    ELSE {parent_id[c]} \cup Ancestors(parent_id, parent_id[c])

\* ================================================== the two caches, alone
\* SpecCaches: _build_cache and _build_single_product_cache on the same
\* mapping tables for one template, and what _sync_one_template reads from
\* each.
CachedTemplates == {"archived", "unmatched", "matched"}

\* The mapping tables of the instance, one record per local entity at most
\* (the unique constraints), the remote id of an entity here its own number.
MappingTables ==
    {[template |-> mapped,
      category_mappings |-> {[category_id |-> c, woo_category_id |-> c] :
                               c \in cats},
      attribute_mappings |-> {[attribute_id |-> a, woo_attribute_id |-> a] :
                                a \in attrs},
      value_mappings |-> {[attribute_value_id |-> v, woo_term_id |-> v] :
                            v \in vals}] :
       mapped \in BOOLEAN, cats \in SUBSET Categories,
       attrs \in SUBSET Attributes, vals \in SUBSET AttributeValues}

InitCaches ==
    /\ EngineAtRest
    /\ \E kind \in CachedTemplates, categ_id \in 0..NC,
          parents \in {f \in [Categories -> 0..NC] :
                         \A c \in Categories : f[c] < c},
          lines \in SUBSET Attributes,
          owner \in {f \in [AttributeValues -> Attributes] :
                      \A v \in AttributeValues, w \in AttributeValues :
                        v <= w => f[v] <= f[w]},
          tables \in MappingTables :
         locals = [fn |-> "caches", template |-> kind, categ_id |-> categ_id,
                   parent_id |-> parents, attribute_line_ids |-> lines,
                   attribute_id |-> owner, tables |-> tables,
                   state |-> "idle", single |-> << >>, full |-> << >>]

\* _build_cache: the four maps over all the mappings of the instance.
BuildCacheMaps(tables) ==
    [tmpl_map |-> tables.template,
     cat_map |-> tables.category_mappings,
     attr_map |-> tables.attribute_mappings,
     val_map |-> tables.value_mappings]

\* A narrow cache that looks up the template's own category and not the
\* categories above it.
SingleCatMapOwnCategory(tables, categ_id, parent_id) ==
    {m \in tables.category_mappings : m.category_id = categ_id}

\* while categ: search(category_id = categ.id, limit=1); categ =
\* categ.parent_id
SingleCatMap(tables, categ_id, parent_id) ==
    {m \in tables.category_mappings :
       /\ categ_id # 0
       /\ m.category_id \in {categ_id} \cup Ancestors(parent_id, categ_id)}

\* _build_single_product_cache: the mapping of the template, of its category
\* and the categories above it, of the attributes of its lines and of their
\* values.
BuildSingleProductCacheMaps(tables, categ_id, parent_id, lines, owner) ==
    [tmpl_map |-> tables.template,
     cat_map |-> SingleCatMap(tables, categ_id, parent_id),
     attr_map |-> {m \in tables.attribute_mappings : m.attribute_id \in lines},
     val_map |-> {m \in tables.value_mappings :
                    owner[m.attribute_value_id] \in lines}]

\* What _sync_one_template does with a cache: its branch (lines 347-364,
\* 374-383) and the entities whose _ensure_*_synced call misses the cache
\* and goes to the create call.
ReadsOf(c) ==
    [decision |-> IF locals.template = "archived"
                  THEN IF c.tmpl_map THEN "draft" ELSE "return"
                  ELSE IF c.tmpl_map THEN "update"
                  ELSE IF locals.template = "matched" THEN "reconcile"
                  ELSE "create",
     categories |-> CallChain(locals.parent_id, c.cat_map, locals.categ_id),
     attributes |-> {a \in locals.attribute_line_ids :
                       AttrMapGet(c.attr_map, a) = 0},
     values |-> {v \in AttributeValues :
                   /\ locals.attribute_id[v] \in locals.attribute_line_ids
                   /\ ValMapGet(c.val_map, v) = 0}]

\* The template is synced once with each cache.
SyncWithBothCaches ==
    /\ locals.fn = "caches"
    /\ locals.state = "idle"
    /\ locals' = [locals EXCEPT
                    !.state = "read",
                    !.single = ReadsOf(BuildSingleProductCacheMaps(
                                 locals.tables, locals.categ_id,
                                 locals.parent_id, locals.attribute_line_ids,
                                 locals.attribute_id)),
                    !.full = ReadsOf(BuildCacheMaps(locals.tables))]
    /\ UNCHANGED engineVars

NextCaches == SyncWithBothCaches

SpecCaches == InitCaches /\ [][NextCaches]_vars

\* ============================================= the SKU index, page by page
\* SpecIndex: the engine, and next to it the while loop of
\* _fetch_woo_sku_index over a listing of the shop, one GET per step.
MaxListing == 4

IndexListings ==
    UNION {{[k \in 1..n |-> [id |-> k, sku |-> f[k], type |-> "simple"]] :
              f \in [1..n -> RawBarcodes]} : n \in 0..MaxListing}

InitIndex ==
    /\ EngineAtRest
    /\ \E listing \in IndexListings :
         locals = [fn |-> "fetch_index", listing |-> listing, page |-> 1,
                   sku_index |-> EmptyIndex, state |-> "loop",
                   ended_by |-> "none"]

\* A loop that goes on to the next page when a page fails.
FetchIndexPageSkipsFailure ==
    /\ locals.fn = "fetch_index"
    /\ locals.state = "loop"
    /\ LET products == Slice(locals.listing, (locals.page - 1) * PER_PAGE,
                             locals.page * PER_PAGE)
       IN  \E res \in {"ok", "status", "exc"} :
             locals' =
               IF res = "ok" /\ products = << >>
               THEN [locals EXCEPT !.state = "returned", !.ended_by = "empty"]
               ELSE IF res = "ok"
               THEN [locals EXCEPT
                       !.sku_index = IndexProducts(@, products),
                       !.page = @ + 1]
               ELSE IF products = << >>
               THEN [locals EXCEPT !.state = "returned", !.ended_by = res]
               ELSE [locals EXCEPT !.page = @ + 1]
    /\ UNCHANGED engineVars

\* One pass of the while loop: the GET of the page, then break on a status
\* other than 200, on an empty page and on an exception, else the products
\* of the page go into the index and the loop goes to the next page.
FetchIndexPage ==
    /\ locals.fn = "fetch_index"
    /\ locals.state = "loop"
    /\ LET products == Slice(locals.listing, (locals.page - 1) * PER_PAGE,
                             locals.page * PER_PAGE)
       IN  \E res \in {"ok", "status", "exc"} :
             locals' =
               IF res = "ok" /\ products = << >>
               THEN [locals EXCEPT !.state = "returned", !.ended_by = "empty"]
               ELSE IF res = "ok"
               THEN [locals EXCEPT
                       !.sku_index = IndexProducts(@, products),
                       !.page = @ + 1]
               ELSE [locals EXCEPT !.state = "returned", !.ended_by = res]
    /\ UNCHANGED engineVars

EngineStep == locals = NoLocals /\ Next

NextIndex ==
    \/ EngineStep
    \/ FetchIndexPage

SpecIndex ==
    /\ Init \/ InitIndex
    /\ [][NextIndex]_vars
    /\ WF_vars(RunStep)
    /\ WF_vars(FetchIndexPage)

\* ================================================ the two cron entry points
\* SpecCron: _cron_full_sync and _cron_stock_price_sync over the instances of
\* the database.  The run of one instance is two steps: its setup (API
\* object, cache, SKU index) and the rest, which commits the mappings of
\* some templates and returns or raises.
MaxInstances == 3

CronInstances == 1..MaxInstances

CronTemplates == 1..2

\* The products of the shop of an instance.
CronShop(instance) == {10 * instance + t : t \in CronTemplates}

NoCronCache == [instance_id |-> 0, tmpl_map |-> {}, unmapped_tmpl_ids |-> {}]

InitCron ==
    /\ EngineAtRest
    /\ \E entry \in {"full", "stock"},
          recs \in [CronInstances ->
                      {[state |-> "connected", active |-> TRUE],
                       [state |-> "connected", active |-> FALSE],
                       [state |-> "draft", active |-> TRUE]}],
          table \in SUBSET [instance_id : CronInstances,
                            product_tmpl_id : CronTemplates] :
         locals = [fn |-> "cron", entry |-> entry, records |-> recs,
                   table |-> table, instances |-> << >>, pos |-> 0,
                   state |-> "search",
                   cache |-> NoCronCache, woo_sku_index |-> {},
                   runs |-> << >>, log |-> << >>]

\* search([('state', '=', 'connected'), ('active', '=', True)])
CronSearch ==
    /\ locals.fn = "cron"
    /\ locals.state = "search"
    /\ LET Selected(n) == /\ locals.records[n].state = "connected"
                          /\ locals.records[n].active
       IN  locals' = [locals EXCEPT
                        !.instances =
                            SelectSeq([n \in CronInstances |-> n], Selected),
                        !.pos = 1,
                        !.state = "loop"]
    /\ UNCHANGED engineVars

\* _build_cache(instance): the mappings whose instance_id is the instance.
BuildInstanceCache(table, instance) ==
    LET mapped == {m.product_tmpl_id :
                     m \in {x \in table : x.instance_id = instance}}
    IN  [instance_id |-> instance, tmpl_map |-> mapped,
         unmapped_tmpl_ids |-> CronTemplates \ mapped]

\* The handler of the cron loop: one error entry for the instance.
CronError(l, instance) ==
    [l EXCEPT
       !.log = Append(@, [instance_id |-> instance, sync_type |-> l.entry,
                          status |-> "error"]),
       !.runs = Append(@, [instance_id |-> instance, cache |-> l.cache,
                           woo_sku_index |-> l.woo_sku_index,
                           outcome |-> "raised"]),
       !.cache = NoCronCache, !.woo_sku_index = {},
       !.pos = @ + 1, !.state = "loop"]

\* The run returns to the loop.
CronReturned(l, instance) ==
    [l EXCEPT
       !.runs = Append(@, [instance_id |-> instance, cache |-> l.cache,
                           woo_sku_index |-> l.woo_sku_index,
                           outcome |-> "returned"]),
       !.cache = NoCronCache, !.woo_sku_index = {},
       !.pos = @ + 1, !.state = "loop"]

\* The cache of the instance before is kept when there is one.
FullSyncSetupKeepsCache(l, instance, fetched) ==
    LET built == IF l.runs = << >> \/ l.runs[Len(l.runs)].cache = NoCronCache
                 THEN BuildInstanceCache(l.table, instance)
                 ELSE l.runs[Len(l.runs)].cache
    IN  [l EXCEPT !.cache = built,
                  !.woo_sku_index = IF built.unmapped_tmpl_ids # {}
                                    THEN fetched ELSE {},
                  !.state = "run"]

\* Lines 63-76 of _run_full_sync: cache = self._build_cache(instance), and
\* the SKU index of the instance's shop when a template is unmapped.
FullSyncSetup(l, instance, fetched) ==
    LET built == BuildInstanceCache(l.table, instance)
    IN  [l EXCEPT !.cache = built,
                  !.woo_sku_index = IF built.unmapped_tmpl_ids # {}
                                    THEN fetched ELSE {},
                  !.state = "run"]

\* for instance in instances: try: self._run_full_sync(instance), up to the
\* chunk loop.  _get_woo_api or _build_cache may raise (no API library, a
\* product_domain that does not evaluate).
CronFullSyncStarts ==
    /\ locals.fn = "cron" /\ locals.entry = "full"
    /\ locals.state = "loop"
    /\ locals.pos <= Len(locals.instances)
    /\ LET instance == locals.instances[locals.pos]
       IN  \/ locals' = CronError(locals, instance)
           \/ \E fetched \in {CronShop(instance), {}} :
                locals' = FullSyncSetup(locals, instance, fetched)
    /\ UNCHANGED engineVars

\* The rest of _run_full_sync: the units of some unmapped templates commit
\* their mappings; the run returns after its summary entry, or an exception
\* escapes it.
CronFullSyncEnds ==
    /\ locals.fn = "cron" /\ locals.entry = "full"
    /\ locals.state = "run"
    /\ LET instance == locals.instances[locals.pos]
       IN  \E synced \in SUBSET locals.cache.unmapped_tmpl_ids,
              raises \in BOOLEAN :
             LET l == [locals EXCEPT
                         !.table = @ \cup {[instance_id |-> instance,
                                            product_tmpl_id |-> t] :
                                             t \in synced}]
             IN  locals' =
                   IF raises THEN CronError(l, instance)
                   ELSE CronReturned(
                          [l EXCEPT !.log =
                             Append(@, [instance_id |-> instance,
                                        sync_type |-> "full",
                                        status |-> "success"])],
                          instance)
    /\ UNCHANGED engineVars

\* for instance in instances: try: self._run_stock_price_sync(instance).
\* The routine reads the mappings of the instance; it builds no cache and
\* no index.
CronStockSync ==
    /\ locals.fn = "cron" /\ locals.entry = "stock"
    /\ locals.state = "loop"
    /\ locals.pos <= Len(locals.instances)
    /\ LET instance == locals.instances[locals.pos]
           l == [locals EXCEPT
                   !.cache = [BuildInstanceCache(locals.table, instance)
                                EXCEPT !.unmapped_tmpl_ids = {}]]
       IN  \E raises \in BOOLEAN :
             locals' = IF raises THEN CronError(l, instance)
                       ELSE CronReturned(l, instance)
    /\ UNCHANGED engineVars

\* The loop over the instances is through.
CronReturn ==
    /\ locals.fn = "cron"
    /\ locals.state = "loop"
    /\ locals.pos > Len(locals.instances)
    /\ locals' = [locals EXCEPT !.state = "done"]
    /\ UNCHANGED engineVars

NextCron ==
    \/ CronSearch
    \/ CronFullSyncStarts
    \/ CronFullSyncEnds
    \/ CronStockSync
    \/ CronReturn

SpecCron == InitCron /\ [][NextCron]_vars

\* ========================================= two syncs of one template at once
\* SpecRace: the unit of the full sync and the manual sync of one unmapped
\* template of one instance, each in its own worker with its own cache,
\* index and database transaction, interleaved at every remote call and at
\* every commit.  The database keeps unique(instance_id, product_tmpl_id):
\* an insert waits for an uncommitted insert of the same key and fails once
\* that one is committed.  The shop refuses a second product with a
\* non-empty SKU that is in use.
Workers == {"cron", "manual"}

RaceSkus == 0..1

NoWorkerState ==
    [pc |-> "cache", mapped |-> FALSE, found |-> 0, posted |-> 0,
     inserted |-> FALSE, outcome |-> "none"]

InitRace ==
    /\ EngineAtRest
    /\ \E sku \in RaceSkus, seeded \in BOOLEAN :
         /\ seeded => sku # 0
         /\ locals = [fn |-> "race", sku |-> sku,
                      woo_products |-> IF seeded
                                       THEN {[id |-> 1, sku |-> sku]}
                                       ELSE {},
                      next_woo |-> 2,
                      mappings |-> {},
                      workers |-> [w \in Workers |-> NoWorkerState]]

\* _build_cache (full sync) / _build_single_product_cache (manual): the
\* committed TemplateMapping of the template, if any.
RaceBuildCache(w) ==
    /\ locals.fn = "race"
    /\ locals.workers[w].pc = "cache"
    /\ locals' = [locals EXCEPT
                    !.workers[w].mapped = locals.mappings # {},
                    !.workers[w].pc = IF locals.mappings # {} THEN "put"
                                      ELSE "index"]
    /\ UNCHANGED engineVars

\* _fetch_woo_sku_index (full sync) / the GET by SKU (manual, lines 149-174):
\* the product of the shop that carries the template's SKU, or nothing when
\* the call fails or the template has no SKU.
RaceFetchIndex(w) ==
    /\ locals.fn = "race"
    /\ locals.workers[w].pc = "index"
    /\ \E answered \in BOOLEAN :
         LET hits == {p \in locals.woo_products :
                        locals.sku # 0 /\ p.sku = locals.sku}
             found == IF answered /\ hits # {}
                      THEN (CHOOSE p \in hits : TRUE).id ELSE 0
         IN  locals' = [locals EXCEPT
                          !.workers[w].found = found,
                          !.workers[w].pc = IF found # 0 THEN "insert"
                                            ELSE "post"]
    /\ UNCHANGED engineVars

\* _update_woo_product for a template the cache holds a mapping of: one PUT,
\* no product is created.
RacePutProduct(w) ==
    /\ locals.fn = "race"
    /\ locals.workers[w].pc = "put"
    /\ \E ok \in BOOLEAN :
         locals' = [locals EXCEPT
                      !.workers[w].pc = "done",
                      !.workers[w].outcome = IF ok THEN "updated"
                                             ELSE "failed"]
    /\ UNCHANGED engineVars

\* _create_simple_product, the POST (lines 508-511): the shop creates the
\* product, or the call fails and the unit is rolled back.
RacePostProduct(w) ==
    /\ locals.fn = "race"
    /\ locals.workers[w].pc = "post"
    /\ \E resp \in {"ok", "fail"} :
         LET in_use == /\ locals.sku # 0
                       /\ \E p \in locals.woo_products : p.sku = locals.sku
         IN  IF resp = "ok" /\ ~in_use
             THEN locals' = [locals EXCEPT
                               !.woo_products =
                                   @ \cup {[id |-> locals.next_woo,
                                            sku |-> locals.sku]},
                               !.next_woo = @ + 1,
                               !.workers[w].posted = locals.next_woo,
                               !.workers[w].pc = "insert"]
             ELSE locals' = [locals EXCEPT
                               !.workers[w].pc = "done",
                               !.workers[w].outcome = "failed"]
    /\ UNCHANGED engineVars

\* woo.sync.template.mapping create (lines 513-519, 410-416) under
\* unique(instance_id, product_tmpl_id): it waits while the other worker
\* holds an uncommitted mapping of the template, and raises when one is
\* committed; the unit is then rolled back.
RaceCreateMapping(w) ==
    /\ locals.fn = "race"
    /\ locals.workers[w].pc = "insert"
    /\ \A o \in Workers \ {w} : ~locals.workers[o].inserted
    /\ locals' = IF locals.mappings # {}
                 THEN [locals EXCEPT !.workers[w].pc = "done",
                                     !.workers[w].outcome = "failed"]
                 ELSE [locals EXCEPT !.workers[w].inserted = TRUE,
                                     !.workers[w].pc = "commit"]
    /\ UNCHANGED engineVars

\* self.env.cr.commit() (lines 105, 179)
RaceCommit(w) ==
    /\ locals.fn = "race"
    /\ locals.workers[w].pc = "commit"
    /\ LET woo_id == IF locals.workers[w].found # 0
                     THEN locals.workers[w].found
                     ELSE locals.workers[w].posted
       IN  locals' = [locals EXCEPT
                        !.mappings = @ \cup {[worker |-> w,
                                              woo_product_id |-> woo_id]},
                        !.workers[w].inserted = FALSE,
                        !.workers[w].pc = "done",
                        !.workers[w].outcome = "mapped"]
    /\ UNCHANGED engineVars

NextRace ==
    \E w \in Workers :
      \/ RaceBuildCache(w)
      \/ RaceFetchIndex(w)
      \/ RacePutProduct(w)
      \/ RacePostProduct(w)
      \/ RaceCreateMapping(w)
      \/ RaceCommit(w)

SpecRace == InitRace /\ [][NextRace]_vars

\* ===================================================== the push button
\* SpecPush: action_woo_push_product over the instances of the database;
\* sync_specific_product returns or raises for each instance in turn.
InitPush ==
    /\ EngineAtRest
    /\ \E recs \in [CronInstances ->
                      {[state |-> "connected", active |-> TRUE],
                       [state |-> "connected", active |-> FALSE],
                       [state |-> "draft", active |-> TRUE]}] :
         locals = [fn |-> "push", records |-> recs,
                   woo_instances |-> << >>, pos |-> 0, state |-> "search",
                   success_count |-> 0, last_error |-> 0,
                   outcomes |-> << >>, logged |-> << >>,
                   result |-> [kind |-> "none"]]

\* Lines 16-22: the search, and the UserError when it finds nothing.
PushSearch ==
    /\ locals.fn = "push"
    /\ locals.state = "search"
    /\ LET Selected(n) == /\ locals.records[n].state = "connected"
                          /\ locals.records[n].active
           found == SelectSeq([n \in CronInstances |-> n], Selected)
       IN  locals' =
             IF found = << >>
             THEN [locals EXCEPT
                     !.state = "done",
                     !.result = [kind |-> "user_error",
                                 message |-> "no_instances"]]
             ELSE [locals EXCEPT !.woo_instances = found, !.pos = 1,
                                 !.state = "loop"]
    /\ UNCHANGED engineVars

\* Lines 27-34: one instance of the loop; the exception of
\* sync_specific_product is logged and kept as last_error.
PushSyncInstance ==
    /\ locals.fn = "push"
    /\ locals.state = "loop"
    /\ locals.pos <= Len(locals.woo_instances)
    /\ LET instance == locals.woo_instances[locals.pos]
       IN  \E raises \in BOOLEAN :
             locals' =
               IF raises
               THEN [locals EXCEPT
                       !.outcomes = Append(@, "raised"),
                       !.logged = Append(@, instance),
                       !.last_error = instance,
                       !.pos = @ + 1]
               ELSE [locals EXCEPT
                       !.outcomes = Append(@, "returned"),
                       !.success_count = @ + 1,
                       !.pos = @ + 1]
    /\ UNCHANGED engineVars

\* An action that reports a failure as soon as one instance failed.
PushResultFailsOnAnyFailure(count, last_error) ==
    IF last_error # 0
    THEN [kind |-> "user_error", message |-> "sync_failed",
          detail |-> last_error]
    ELSE [kind |-> "notification", count |-> count]

\* Lines 36-48: UserError with the last error when nothing succeeded, the
\* success notification with the count otherwise.
PushResult(count, last_error) ==
    IF count = 0
    THEN [kind |-> "user_error", message |-> "sync_failed",
          detail |-> last_error]
    ELSE [kind |-> "notification", count |-> count]

\* The loop is through.
PushReturn ==
    /\ locals.fn = "push"
    /\ locals.state = "loop"
    /\ locals.pos > Len(locals.woo_instances)
    /\ locals' = [locals EXCEPT
                    !.state = "done",
                    !.result = PushResult(locals.success_count,
                                          locals.last_error)]
    /\ UNCHANGED engineVars

NextPush ==
    \/ PushSearch
    \/ PushSyncInstance
    \/ PushReturn

SpecPush == InitPush /\ [][NextPush]_vars

\* ============================================================== properties
Count(s, x) == Cardinality({k \in DOMAIN s : s[k] = x})

LastAttempt == attempted[Len(attempted)]

\* The unit started last has ended (committed or rolled back).
UnitEnded == attempted # << >> /\ last.t # 0 /\ last.t = LastAttempt.tmpl

Unique(st) ==
    \A m1 \in st, m2 \in st :
      (m1.tmpl = m2.tmpl \/ m1.woo = m2.woo) => m1 = m2

\* C1: in the committed store and in the open transaction, no two template
\* mappings share a remote product id and no two share a template, after any
\* sequence of full syncs, manual syncs and stale-mapping recoveries,
\* also when two unmapped templates match the same remote record.
C1_Uniqueness == Unique(store) /\ Unique(tx)

\* A second template matched the remote record another template is mapped
\* to, and was refused.
C1_Witness ==
    /\ UnitEnded /\ ~last.ok
    /\ LastAttempt.decision = "MatchFound"
    /\ "integrity_error" \in Range(last.ev)
    /\ \E m \in store : m.woo = MatchByBarcode(last.t, index).id

\* The second of two full-sync runs with nothing changed in between and no
\* remote failure in either.
QuietSecondRun == mode = "full" /\ pc # "idle" /\ prevQuiet /\ ~fail

SecondRunAddsNothing ==
    /\ posts = 0
    /\ created = 0
    /\ \A k \in DOMAIN attempted :
         MappingsOf(store, attempted[k].tmpl) # {}
           => attempted[k].decision = "AlreadyMapped"

MatchedUnit == UnitEnded /\ LastAttempt.decision = "MatchFound"

MappedToMatch ==
    \E m \in store :
      m.tmpl = last.t /\ m.woo = MatchByBarcode(last.t, index).id

CreationOnlyWithoutMatch ==
    (UnitEnded /\ "post" \in Range(last.ev)
       /\ LastAttempt.decision # "AlreadyMapped")
      => /\ LastAttempt.decision = "Create"
         /\ MatchByBarcode(last.t, index).id = 0

\* C3 (as stated): an unmapped active template with a barcode in the SKU
\* index gets a mapping to the indexed remote product and no creation call;
\* a creation call is issued only when no barcode is in the index.
C3_MatchMaps ==
    /\ MatchedUnit => (MappedToMatch /\ "post" \notin Range(last.ev))
    /\ CreationOnlyWithoutMatch

\* C3 (amended): such a template gets no creation call, and gets the mapping
\* to the indexed remote product unless that product is already mapped to
\* another template: then the mapping is refused, the unit is rolled back
\* and the template stays unmapped.
C3_MatchMapsUnlessTaken ==
    /\ MatchedUnit =>
         /\ "post" \notin Range(last.ev)
         /\ IF last.ok THEN MappedToMatch
            ELSE /\ "integrity_error" \in Range(last.ev)
                 /\ MappingsOf(store, last.t) = {}
                 /\ \E m \in store :
                      /\ m.woo = MatchByBarcode(last.t, index).id
                      /\ m.tmpl # last.t
    /\ CreationOnlyWithoutMatch

C3_Witness == MatchedUnit /\ last.ok /\ MappedToMatch

Recovery == <<"put", "notfound", "unlink", "pop">>

\* C4: a not-found answer to the update is followed by exactly one deletion
\* of the template's mapping and of its cache entry, then exactly one
\* creation attempt, and a template never has two mappings.
C4_Recovery ==
    /\ \A t \in Templates :
         /\ Cardinality(MappingsOf(tx, t)) <= 1
         /\ Cardinality(MappingsOf(store, t)) <= 1
    /\ (cur # 0 /\ "notfound" \in Range(ev)) =>
         /\ Len(ev) >= 4
         /\ SubSeq(ev, 1, 4) = Recovery
         /\ Count(ev, "post") <= 1
         /\ pc = "post_product" => MappingsOf(tx, cur) = {}
    /\ (last.t # 0 /\ "notfound" \in Range(last.ev)) =>
         /\ Len(last.ev) >= 5
         /\ SubSeq(last.ev, 1, 5) = Recovery \o <<"post">>
         /\ Count(last.ev, "unlink") = 1
         /\ Count(last.ev, "pop") = 1
         /\ Count(last.ev, "post") = 1

\* The recovery went through: the template is mapped to the new product.
C4_Witness ==
    /\ last.t # 0 /\ last.ok /\ "notfound" \in Range(last.ev)
    /\ \E m \in store : m.tmpl = last.t /\ m.woo = nextWoo - 1

Started == {attempted[k].tmpl : k \in DOMAIN attempted}

\* C6: once a time check of a full sync finds the budget exceeded no
\* template is started any more, templates not started get no remote call
\* and no mapping write, the summary log entry carries the timeout marker,
\* and the marker is there only if a template was left unprocessed.
C6_Truncation ==
    /\ [][skipped_timeout' => attempted' = attempted]_vars
    /\ [](mode = "full" => (calls \subseteq Started /\ wrote \subseteq Started))
    /\ [][(pc = "summary" /\ pc' = "idle") =>
            /\ Len(log') = Len(log) + 1
            /\ log'[Len(log')].sync_type = "full"
            /\ log'[Len(log')].truncated = skipped_timeout
            /\ skipped_timeout => Len(attempted) < Len(template_ids)]_vars

\* A run cut short inside a chunk, after its first template.
C6_Witness ==
    /\ pc = "summary" /\ skipped_timeout
    /\ Len(attempted) = 1
    /\ calls = {1}

\* C9: a template is classified variable exactly when it has at least one
\* attribute line and more than one variant, and the unit in progress
\* carries that classification.
C9_IsVariable ==
    /\ \A t \in Templates :
         IsVariableProduct(t) <=> (tmpl[t].lines >= 1 /\ Len(tmpl[t].vbars) >= 2)
    /\ (cur # 0 /\ tmpl[cur].active) =>
         (is_variable <=> (tmpl[cur].lines >= 1 /\ Len(tmpl[cur].vbars) >= 2))

\* A template with an attribute line and exactly one variant is processed
\* as simple while another has several variants and no attribute line.
C9_Witness ==
    /\ cur # 0 /\ pc = "post_product" /\ ~is_variable
    /\ tmpl[cur].lines >= 1 /\ Len(tmpl[cur].vbars) = 1

C9_WitnessNoLines ==
    /\ cur # 0 /\ pc = "post_product" /\ ~is_variable
    /\ tmpl[cur].lines = 0 /\ Len(tmpl[cur].vbars) = 2

\* A unit of a full sync ends in failure in this step.
UnitFails == mode' = "full" /\ last' # last /\ ~last'.ok

\* C10: when a template fails in a full sync the store is back at the last
\* commit, exactly one error log entry for the template is committed,
\* error_count goes up by one, and the run goes on: unless the time budget
\* cuts it short every template is processed.
C10_FailureIsolated ==
    /\ [][UnitFails =>
            /\ store' = store /\ tx' = store
            /\ log' = Append(log, LogEntry("product", "error", last'.t, FALSE))
            /\ error_count' = error_count + 1
            /\ success_count' = success_count
            /\ pc' \in {"loop", "chunk"}]_vars
    /\ []((mode = "full" /\ pc = "summary" /\ ~skipped_timeout) =>
            /\ Len(attempted) = Len(template_ids)
            /\ success_count + error_count = Len(template_ids))
    /\ []((mode = "full" /\ pc # "idle") =>
            /\ Len(attempted) <= Len(template_ids)
            /\ \A k \in DOMAIN attempted : attempted[k].tmpl = template_ids[k])

\* A run in which a template failed after another was committed, and the
\* templates after it were processed.
C10_Witness ==
    /\ mode = "full" /\ pc = "summary" /\ ~skipped_timeout
    /\ error_count >= 1 /\ success_count >= 1
    /\ store # {}
    /\ \E k \in 1..(Len(log) - 1) :
         log[k].status = "error" /\ log[k + 1].status = "success"

DiffDone == locals.fn = "_update_variations" /\ locals.done

LiveVariants == Range(locals.product_variant_ids)
MappedVariants == {m.product : m \in Range(locals.variant_mapping_ids)}
ToUpdate == {u.variant : u \in Range(locals.update_list)}
ToCreate == Range(locals.create_list)
ToDelete == {m.product : m \in Range(locals.existing_var_mappings)}

\* C7: with live variants V and variant mappings over M, update = V
\* intersect M with each payload carrying its mapping's remote variation id,
\* create = V minus M, delete = the remote variation ids of the mappings of
\* M minus V; the three are pairwise disjoint and cover V union M.
C7_Partition ==
    DiffDone =>
      /\ ToUpdate = LiveVariants \cap MappedVariants
      /\ \A u \in Range(locals.update_list) :
           \E m \in Range(locals.variant_mapping_ids) :
             m.product = u.variant /\ m.woo_variation_id = u.id
      /\ ToCreate = LiveVariants \ MappedVariants
      /\ ToDelete = MappedVariants \ LiveVariants
      /\ locals.delete_ids =
           [k \in DOMAIN locals.existing_var_mappings |->
              locals.existing_var_mappings[k].woo_variation_id]
      /\ Len(locals.update_list) = Cardinality(ToUpdate)
      /\ Len(locals.create_list) = Cardinality(ToCreate)
      /\ Len(locals.delete_ids) = Cardinality(ToDelete)
      /\ ToUpdate \cap ToCreate = {}
      /\ ToUpdate \cap ToDelete = {}
      /\ ToCreate \cap ToDelete = {}
      /\ ToUpdate \cup ToCreate \cup ToDelete = LiveVariants \cup MappedVariants

\* M = {1, 2, 3}, V = {2, 3, 4}: create = {4}, update = {2, 3}, delete = {1}.
C7_Witness ==
    /\ DiffDone
    /\ MappedVariants = {1, 2, 3} /\ LiveVariants = {2, 3, 4}
    /\ ToCreate = {4} /\ ToUpdate = {2, 3} /\ ToDelete = {1}
    /\ Len(locals.delete_ids) = 1

\* C8: every batch call carries at most min(batch_size, 100) items and never
\* more than 100; with batch size 250 and 120 items exactly two batches are
\* sent, of 100 and of 20.
C8_BatchCap ==
    locals.fn = "batches" =>
      /\ \A k \in DOMAIN locals.sent :
           /\ locals.sent[k] <= Min(locals.configured, 100)
           /\ locals.sent[k] <= 100
      /\ (locals.state = "done" /\ locals.configured = 250
            /\ Len(locals.items) = 120)
           => locals.sent = <<100, 20>>

C8_Witness ==
    /\ locals.fn = "batches" /\ locals.state = "done"
    /\ locals.site = "create"
    /\ locals.configured = 250 /\ Len(locals.items) = 120
    /\ locals.sent = <<100, 20>>

NewEntries == SubSeq(log', Len(log) + 1, Len(log'))

\* C11: every full-sync run, whatever the outcomes of its templates and
\* whether or not it is cut short, ends, and ends by committing exactly one
\* log entry of category 'full', written after the last processed template;
\* no failure of a template is raised to the caller of the run.
C11_SummaryAlways ==
    /\ [][(mode = "full" /\ pc # "idle" /\ pc' = "idle") =>
            /\ pc = "summary"
            /\ cur = 0
            /\ Len(log') = Len(log) + 1
            /\ log'[Len(log')].sync_type = "full"
            /\ log'[Len(log')].success_count + log'[Len(log')].error_count
                 = Len(attempted)]_vars
    /\ [][(Len(log') > Len(log) /\ pc # "summary") =>
            \A k \in DOMAIN NewEntries : NewEntries[k].sync_type # "full"]_vars
    /\ [](mode = "full" => ~raised)
    /\ (mode = "full" /\ pc # "idle") ~> (pc = "idle")

\* A run cut short, with a failed template, has returned with its summary.
C11_Witness ==
    /\ mode = "full" /\ pc = "idle" /\ log # << >>
    /\ log[Len(log)].sync_type = "full"
    /\ log[Len(log)].truncated
    /\ log[Len(log)].error_count >= 1

FullEntries == {k \in DOMAIN log : log[k].sync_type = "full"}

\* The number of templates the previous full-sync run processed, from its
\* summary.
PrevProcessed ==
    log[SetMax(FullEntries)].success_count
      + log[SetMax(FullEntries)].error_count

\* C12: with no local changes the templates a time-truncated run left
\* unprocessed are picked up by a later run, also when a run covers only a
\* strict prefix of the template list: the run that follows a run cut short
\* after some templates, if it processes any template, processes one that
\* run had left.
C12_TailPickedUp ==
    (mode = "full" /\ pc = "summary" /\ prevQuiet /\ prevTrunc /\ ~fail
       /\ FullEntries # {})
      => ((PrevProcessed >= 1 /\ attempted # << >>) =>
            \E k \in DOMAIN attempted :
              attempted[k].tmpl \notin
                {template_ids[j] : j \in 1..PrevProcessed})

\* The product-creation call of the unit with trace e was answered with the
\* id of a new product.
PostSucceeded(e) ==
    \E k \in 1..(Len(e) - 1) :
      e[k] = "post" /\ e[k + 1] \notin {"reject", "exc"}

\* C13: when a product-creation call succeeded while a template was
\* processed in full sync, a mapping from the template to the created
\* product is committed before the next template is started, also when a
\* later step of the template raised.
C13_CreationRecorded ==
    (mode = "full" /\ UnitEnded /\ PostSucceeded(last.ev)) =>
      \E m \in store : m.tmpl = last.t /\ m.woo = nextWoo - 1

\* C14: every update call of full sync for a mapped template that reports
\* not-found, the product update of an active template and the status-only
\* update of an archived one alike, gets the stale mapping discarded: after
\* the unit no mapping of the template references a remote product
\* reported not found during the unit.
C14_StaleDiscarded ==
    (mode = "full" /\ UnitEnded /\ "notfound" \in Range(last.ev)) =>
      \A m \in store : m.tmpl = last.t => RemoteHas(m.woo)

\* C15: in full sync a failure answer other than not-found to any remote
\* call of a template's unit (product creation, product update, variation
\* batch) makes the unit fail: nothing of it is committed, one error entry
\* is written and the template counts in error_count.
C15_RejectFailsUnit ==
    [][(mode = "full" /\ pc \notin {"idle", "loop", "summary"} /\ pc' = "loop"
        /\ "reject" \in Range(last'.ev)) =>
          /\ ~last'.ok
          /\ store' = store
          /\ error_count' = error_count + 1
          /\ success_count' = success_count
          /\ Len(log') = Len(log) + 1
          /\ log'[Len(log')].status = "error"]_vars

\* A step of full sync that ends the unit of a template.
UnitEnds ==
    /\ mode = "full" /\ pc # "idle" /\ cur' = 0
    /\ cur # 0 \/ Len(attempted') > Len(attempted)

\* Every step keeps the log entries it found, unchanged and in place.
LogAppendOnly == Len(log') >= Len(log) /\ SubSeq(log', 1, Len(log)) = log

\* C16: the step that ends the unit of a template in full sync, on the
\* creation, reconciliation, update and archived paths (a template for which
\* the unit returns before any remote call or mapping is passed over, not
\* processed), leaves a new
\* success or error log entry that references the template; and every step
\* of the engine keeps the log entries it found, unchanged and in place.
C16_OutcomeLogged ==
    /\ [][(UnitEnds /\ last'.ev # << >>) =>
            \E k \in DOMAIN NewEntries :
              /\ NewEntries[k].tmpl = attempted'[Len(attempted')].tmpl
              /\ NewEntries[k].status \in {"success", "error"}]_vars
    /\ [][LogAppendOnly]_vars

\* C17: no two mappings of a kind share a remote id, also when the id came
\* from the search by name; here for the CategoryMappings, committed and in
\* the open transaction.
C17_RemoteIdUnique ==
    locals.fn = "ensure_category" =>
      \A m1 \in locals.category_mappings \cup locals.tx_mappings,
         m2 \in locals.category_mappings \cup locals.tx_mappings :
           m1.woo_category_id = m2.woo_category_id => m1 = m2

\* The step in which the unit of a manual sync fails.
ManualUnitFails ==
    mode' = "manual" /\ pc # "manual_end" /\ pc' = "manual_end" /\ ~last'.ok

UnitReturns == UnitEnds \/ (pc # "manual_end" /\ pc' = "manual_end")

\* A mapping without its sync date.
Undated(m) == [m EXCEPT !.last_sync_date = 0]

\* The unit that ends in this step was for an archived template.
ArchivedUnitReturns == UnitReturns /\ ~tmpl[last'.t].active

StockOffsets(n) == {x \in 0..(n - 1) : x % locals.batch_size = 0}

StockCalls(kind, t) ==
    {x \in DOMAIN locals.sent :
       locals.sent[x].kind = kind /\ locals.sent[x].tmpl = t}

StockSent(kind, t) == {locals.sent[x].from : x \in StockCalls(kind, t)}

StockRaised(call) == call.resp = "exc"

StockFailures == SelectSeq(locals.sent, StockRaised)

C21_NoVariantFails ==
    [][(UnitReturns /\ tmpl[last'.t].active /\ Variants(last'.t) = << >>) =>
         /\ ~last'.ok
         /\ calls' = calls]_vars

\* C22: at every moment of a full-sync run the templates attempted so far
\* are, in order, a prefix of the run's template list, each attempted once;
\* what a truncated run leaves out is a suffix of the list.
C22_AttemptedIsPrefix ==
    (mode = "full" /\ pc # "idle") =>
      /\ Len(attempted) <= Len(template_ids)
      /\ \A k \in DOMAIN attempted : attempted[k].tmpl = template_ids[k]
      /\ \A j \in DOMAIN attempted, k \in DOMAIN attempted :
           attempted[j].tmpl = attempted[k].tmpl => j = k

C22_Witness ==
    /\ mode = "full" /\ pc = "summary" /\ skipped_timeout
    /\ Len(attempted) = CHUNK_SIZE /\ Len(attempted) < Len(template_ids)

\* The barcode is set and, stripped, a key of the index.
InIndex(b) ==
    b # 0 /\ StripOf(b, MatchBarcodes) \in DOMAIN locals.woo_sku_index

IndexRecord(b) == locals.woo_sku_index[StripOf(b, MatchBarcodes)]

VariantRecords ==
    {IndexRecord(locals.template.vbars[k]) :
       k \in {j \in DOMAIN locals.template.vbars :
                InIndex(locals.template.vbars[j])}}

\* C23: _match_by_barcode returns the record of the template's barcode
\* whenever that barcode is a key of the index, whatever the variants'
\* barcodes point to; it returns the record of a variant's barcode only
\* when the template's barcode is absent or not in the index; it returns one
\* record of the index, or none when no barcode is a key.
C23_TemplateBarcodeFirst ==
    (locals.fn = "match" /\ locals.state = "returned") =>
      /\ InIndex(locals.template.barcode) =>
           locals.existing = IndexRecord(locals.template.barcode)
      /\ ~InIndex(locals.template.barcode) =>
           IF VariantRecords = {} THEN locals.existing = NoProduct
           ELSE locals.existing \in VariantRecords
      /\ locals.existing # NoProduct =>
           locals.existing \in Range(locals.woo_sku_index)

C23_Witness ==
    /\ locals.fn = "match" /\ locals.state = "returned"
    /\ InIndex(locals.template.barcode)
    /\ \E r \in VariantRecords : r # IndexRecord(locals.template.barcode)
    /\ locals.existing = IndexRecord(locals.template.barcode)

\* C24: the VariantMappings of a TemplateMapping of type 'simple' are one
\* mapping with variation id 0, and every VariantMapping of a TemplateMapping
\* of type 'variable' has a variation id other than 0, whatever the template
\* is classified as when it is synced again.
C24_TypeMatchesVariations ==
    (locals.fn = "variants" /\ locals.pc = "idle") =>
      /\ locals.store.woo_product_type = "simple" =>
           /\ \A vm \in locals.store.vms : vm.woo_variation_id = 0
           /\ Cardinality(locals.store.vms) <= 1
      /\ locals.store.woo_product_type = "variable" =>
           \A vm \in locals.store.vms : vm.woo_variation_id # 0

\* The ids of the remote variations whose SKU is the barcode b, both stripped.
VariationsWithSku(b) ==
    {locals.woo.variations[k].id : k \in
       {j \in DOMAIN locals.woo.variations :
          /\ Strip(b) # 0
          /\ Strip(locals.woo.variations[j].sku) = Strip(b)}}

\* What the reconciliation leaves for the variants, given the variations it
\* is held to have seen: one mapping to a variation of the same SKU for a
\* variant that has one, none for the others, no error and no write call.
ReconciledTo(same(_)) ==
    /\ ~locals'.raised
    /\ locals'.pc = "idle"
    /\ locals'.call.kind = "get_variations"
    /\ locals'.store.woo_product_type = "variable"
    /\ \A k \in DOMAIN locals.product_variant_ids :
         LET v == locals.product_variant_ids[k]
             mine == {vm \in locals'.store.vms : vm.product_id = v.id}
         IN  IF same(v.barcode) = {} THEN mine = {}
             ELSE \E vm \in mine : /\ mine = {vm}
                                   /\ vm.woo_variation_id \in same(v.barcode)

\* C25: reconciling an unmapped template to a remote 'variable' product maps
\* each variant whose barcode is the SKU of a remote variation to that
\* variation, leaves the other variants without mapping, raises nothing and
\* makes no remote write call.
C25_MatchingVariantsMapped ==
    [][(locals.fn = "variants" /\ locals.pc = "get_variations") =>
         ReconciledTo(VariationsWithSku)]_vars

\* C26: the create call for a category is issued when every ancestor has a
\* remote id and carries the parent's remote id (0 for a root); when
\* _ensure_category_synced has returned, the category and all its ancestors
\* have a CategoryMapping and a cache entry.
C26_ParentFirst ==
    [][(locals.fn = "ensure_category" /\ locals.state = "post") =>
         LET c == Head(locals.pending)
             call == locals'.posted[Len(locals'.posted)]
         IN  /\ call.category_id = c
             /\ \A a \in Ancestors(locals.parent_id, c) :
                  CatMapGet(locals.cat_map, a) # 0
             /\ call.parent = IF locals.parent_id[c] = 0 THEN 0
                              ELSE CatMapGet(locals.cat_map,
                                             locals.parent_id[c])
             /\ (locals'.state = "idle" /\ ~locals'.raised) =>
                  \A a \in {locals.category}
                             \cup Ancestors(locals.parent_id, locals.category) :
                    /\ CatMapGet(locals'.cat_map, a) # 0
                    /\ CatMapGet(locals'.tx_mappings, a)
                         = CatMapGet(locals'.cat_map, a)]_vars

\* The step of _ensure_category_synced whose create call returned no id.
CategoryCreateRejected ==
    /\ locals.fn = "ensure_category"
    /\ locals.state = "post"
    /\ locals'.posted[Len(locals'.posted)].resp = "reject"

\* The step of _ensure_attribute_synced or _ensure_attribute_value_synced
\* whose create call returned no id.
EnsureCreateRejected(kind) ==
    /\ locals.fn = "attributes"
    /\ locals.state = "ensure"
    /\ Head(locals.pending).kind = kind
    /\ locals'.call.resp = "reject"

\* C27: when the create call of _ensure_category_synced,
\* _ensure_attribute_synced or _ensure_attribute_value_synced returns no id,
\* the entity is searched by name (under the parent category, under the
\* owning attribute); an entity found is mapped and cached and the call
\* returns, and when none is found the call raises and writes neither a
\* mapping nor a cache entry.
C27_SearchBeforeRaise ==
    /\ [][CategoryCreateRejected =>
            LET c == Head(locals.pending)
                call == locals'.posted[Len(locals'.posted)]
            IN  /\ call.searched
                /\ IF call.woo_id # 0
                   THEN /\ ~locals'.raised
                        /\ \E w \in locals.woo_categories :
                             /\ w.id = call.woo_id
                             /\ w.parent = call.parent
                             /\ Lower(w.name) = Lower(locals.name[c])
                        /\ [category_id |-> c, woo_category_id |-> call.woo_id]
                             \in locals'.tx_mappings
                        /\ CatMapGet(locals'.cat_map, c) = call.woo_id
                   ELSE /\ locals'.raised
                        /\ locals'.cat_map = locals.cat_map
                        /\ locals'.category_mappings = locals.category_mappings
                        /\ locals'.tx_mappings = locals.category_mappings]_vars
    /\ [][EnsureCreateRejected("attribute") =>
            LET a == Head(locals.pending).id
                call == locals'.call
            IN  /\ call.searched
                /\ IF call.woo_id # 0
                   THEN /\ ~locals'.raised
                        /\ \E w \in locals.woo_attributes :
                             /\ w.id = call.woo_id
                             /\ Lower(w.name) = Lower(locals.name[a])
                        /\ [attribute_id |-> a,
                            woo_attribute_id |-> call.woo_id]
                             \in locals'.tx_attribute_mappings
                        /\ AttrMapGet(locals'.attr_map, a) = call.woo_id
                   ELSE /\ locals'.raised
                        /\ locals'.attr_map = locals.attr_map
                        /\ locals'.attribute_mappings
                             = locals.attribute_mappings
                        /\ locals'.tx_attribute_mappings
                             = locals.attribute_mappings]_vars
    /\ [][EnsureCreateRejected("value") =>
            LET v == Head(locals.pending).id
                call == locals'.call
            IN  /\ call.searched
                /\ IF call.woo_id # 0
                   THEN /\ ~locals'.raised
                        /\ \E w \in locals.woo_terms :
                             /\ w.id = call.woo_id
                             /\ w.attribute = locals.woo_attr_id
                             /\ Lower(w.name) = Lower(locals.value_name[v])
                        /\ [attribute_value_id |-> v,
                            woo_term_id |-> call.woo_id,
                            woo_attribute_id |-> locals.woo_attr_id]
                             \in locals'.tx_value_mappings
                        /\ ValMapGet(locals'.val_map, v) = call.woo_id
                   ELSE /\ locals'.raised
                        /\ locals'.val_map = locals.val_map
                        /\ locals'.value_mappings = locals.value_mappings
                        /\ locals'.tx_value_mappings
                             = locals.value_mappings]_vars

\* A value whose create call returned no id was found by name under its
\* attribute and mapped, and the unit committed.
C27_Witness ==
    /\ locals.fn = "attributes"
    /\ locals.state = "idle"
    /\ ~locals.raised
    /\ locals.call.kind = "value"
    /\ locals.call.resp = "reject"
    /\ locals.call.woo_id # 0
    /\ \E m \in locals.value_mappings :
         /\ m.attribute_value_id = locals.call.id
         /\ m.woo_term_id = locals.call.woo_id

\* A create batch of variations that was answered.
CreateBatchAnswered ==
    /\ locals.fn = "variants"
    /\ locals.pc \in {"post_variations", "upd_create"}
    /\ locals'.call.answered

\* C28: in each variation create batch the result entry at position i that
\* carries an id gives the i-th variant of the batch one VariantMapping with
\* that id; an entry without id gives no mapping and does not fail the unit,
\* and the other entries are still mapped; no variant has two
\* VariantMappings.
C28_PositionalMapping ==
    /\ [][CreateBatchAnswered =>
            LET batch == locals'.call.batch
                resp == locals'.call.resp
                sent == {batch[pos] : pos \in DOMAIN batch}
            IN  /\ ~locals'.raised
                /\ \A pos \in DOMAIN batch :
                     {vm \in locals'.tx.vms : vm.product_id = batch[pos]}
                       = IF pos \in DOMAIN resp /\ resp[pos]
                         THEN {[product_id |-> batch[pos],
                                woo_variation_id |->
                                    NewVariationId(batch[pos])]}
                         ELSE {}
                /\ {vm \in locals'.tx.vms : vm.product_id \notin sent}
                     = {vm \in locals.tx.vms : vm.product_id \notin sent}]_vars
    /\ [](locals.fn = "variants" =>
            \A vm1 \in locals.tx.vms, vm2 \in locals.tx.vms :
              vm1.product_id = vm2.product_id => vm1 = vm2)

\* A batch of two whose first entry came back without id and whose second
\* entry was mapped, the unit committed.
C28_Witness ==
    /\ locals.fn = "variants"
    /\ locals.pc = "idle"
    /\ ~locals.raised
    /\ locals.call.kind = "create"
    /\ locals.call.resp = <<FALSE, TRUE>>
    /\ Len(locals.call.batch) = 2
    /\ \E vm \in locals.store.vms : vm.product_id = locals.call.batch[2]
    /\ \A vm \in locals.store.vms : vm.product_id # locals.call.batch[1]

\* The VariantMappings of the delete set: those of variants that are not
\* among template.product_variant_ids any more.
DeleteSet ==
    {vm \in locals.tx.vms :
       \A k \in DOMAIN locals.product_variant_ids :
         locals.product_variant_ids[k].id # vm.product_id}

\* A step of _update_variations.
UpdateVariationsStep ==
    /\ locals.fn = "variants"
    /\ locals.pc \in {"upd_update", "upd_create", "upd_delete"}

\* A mapping of the delete set goes only in the step in which the last
\* delete batch returned, and none goes when a delete batch raises.
C29_UnlinkAfterDelete ==
    [][UpdateVariationsStep =>
         /\ ~(DeleteSet \subseteq locals'.tx.vms) =>
              /\ locals.pc = "upd_delete"
              /\ ~locals'.raised
              /\ Len(locals'.deleted) * locals.batch_size
                   >= Len(locals.work.delete_ids)
         /\ (locals.pc = "upd_delete" /\ locals'.raised) =>
              /\ DeleteSet \subseteq locals'.store.vms
              /\ locals'.tx = locals'.store]_vars

\* No remote variation id is sent in two delete calls of a run.
C29_DeletedOnce ==
    locals.fn = "variants" =>
      \A j \in DOMAIN locals.deleted, k \in DOMAIN locals.deleted :
        j # k => Range(locals.deleted[j]) \cap Range(locals.deleted[k]) = {}

\* C29: in _update_variations a VariantMapping of the delete set is removed
\* only after the remote delete batches returned, none is removed when a
\* delete batch raises, and each remote variation id of the delete set is
\* sent in at most one delete call of the run.
C29_DeleteThenUnlink ==
    /\ C29_UnlinkAfterDelete
    /\ []C29_DeletedOnce

C31_NarrowCacheEquivalent ==
    (locals.fn = "caches" /\ locals.state = "read") =>
      locals.single = locals.full

\* A template whose category is not mapped and whose parent category is: both
\* caches lead to the one create call for the category.
C31_Witness ==
    /\ locals.fn = "caches" /\ locals.state = "read"
    /\ locals.categ_id # 0
    /\ locals.parent_id[locals.categ_id] # 0
    /\ locals.single.categories = <<locals.categ_id>>
    /\ locals.full.categories = <<locals.categ_id>>
    /\ locals.attribute_line_ids # {}
    /\ \E m \in locals.tables.category_mappings :
         m.category_id \notin {locals.categ_id}
                                \cup Ancestors(locals.parent_id, locals.categ_id)

\* A full-sync run starts.
FullSyncStarts == pc = "idle" /\ pc' = "chunk" /\ mode' = "full"

\* A product of the shop with a SKU that the index of the run does not hold.
MissingFromIndex(p) ==
    /\ p \in remote
    /\ Strip(p.sku) # 0
    /\ Strip(p.sku) \notin DOMAIN index

\* The unit of an active template without mapping starts, and a product of
\* the shop that carries one of its barcodes is missing from the index.
UnitStartsWithoutMatch ==
    /\ mode = "full" /\ pc = "loop" /\ Len(attempted') = Len(attempted) + 1
    /\ LET t == attempted'[Len(attempted')].tmpl
       IN  /\ tmpl[t].active
           /\ cache.tmpl_map[t] = NoMapping
           /\ MatchByBarcode(t, index).id = 0
           /\ \E p \in remote :
                /\ MissingFromIndex(p)
                /\ Strip(p.sku) \in {Strip(b) : b \in SkusToCheck(t)}

\* C32: _fetch_woo_sku_index ends at the first page that is empty, answers
\* with another status than 200 or raises, and returns the index of the
\* pages before it; a template whose SKU is missing from a partial index
\* goes to creation, and the run goes on to its summary.
C32_PartialIndexAccepted ==
    /\ (locals.fn = "fetch_index") ~> (locals.fn = "fetch_index"
                                        /\ locals.state = "returned")
    /\ [](locals.fn = "fetch_index" =>
            /\ locals.sku_index
                 = IndexProducts(EmptyIndex,
                                 Slice(locals.listing, 0,
                                       (locals.page - 1) * PER_PAGE))
            /\ locals.state = "returned" =>
                 \/ locals.ended_by \in {"status", "exc"}
                 \/ (locals.page - 1) * PER_PAGE >= Len(locals.listing))
    /\ [][FullSyncStarts =>
            \E k \in 0..NumPages :
              index' = IF BuildCache(store).unmapped # {}
                       THEN IndexProducts(EmptyIndex,
                                          SubSeq(SortById(remote), 1,
                                                 Min(k * PER_PAGE,
                                                     Cardinality(remote))))
                       ELSE EmptyIndex]_vars
    /\ [][UnitStartsWithoutMatch =>
            /\ attempted'[Len(attempted')].decision = "Create"
            /\ Variants(attempted'[Len(attempted')].tmpl) # << >> =>
                 pc' = "post_product"]_vars
    /\ (mode = "full" /\ pc = "chunk" /\ \E p \in remote : MissingFromIndex(p))
         ~> (mode = "full" /\ pc = "summary")

\* A run whose index missed a product of the shop created the template that
\* carries the product's SKU and went on to its summary.
C32_Witness ==
    /\ mode = "full" /\ pc = "summary"
    /\ \E k \in DOMAIN attempted :
         /\ attempted[k].decision = "Create"
         /\ \E p \in remote :
              /\ MissingFromIndex(p)
              /\ Strip(p.sku) \in {Strip(b) : b \in SkusToCheck(attempted[k].tmpl)}
    /\ created > 0

\* The update entries of one batch call of the stock and price sync: the
\* slice of the list it was cut from.
StockEntries(call) ==
    LET items == IF call.kind = "simple" THEN locals.simple_batch
                 ELSE locals.variations_data[call.tmpl]
    IN  Slice(items, call.from, call.from + locals.batch_size)

\* How many update entries of the calls of this kind (and variable mapping)
\* carry this id.
StockEntryCount(kind, t, id) ==
    Cardinality({<<x, p>> \in (DOMAIN locals.sent) \X (1..MaxStockItems) :
                   /\ x \in StockCalls(kind, t)
                   /\ p \in DOMAIN StockEntries(locals.sent[x])
                   /\ StockEntries(locals.sent[x])[p] = id})

\* The simple mappings and the variant mappings the routine is to cover.
StockSimpleCovered ==
    {m \in DOMAIN locals.mappings :
       /\ locals.mappings[m].woo_product_type = "simple"
       /\ locals.mappings[m].active
       /\ locals.mappings[m].has_variant}

StockVariantsCovered(t) ==
    {v \in DOMAIN locals.mappings[locals.variable_ids[t]].vms :
       locals.mappings[locals.variable_ids[t]].vms[v]}

StockOnlyCovered ==
    \A x \in DOMAIN locals.sent :
      LET call == locals.sent[x]
      IN  /\ call.kind \in {"simple", "variation"}
          /\ call.kind = "simple" =>
               Range(StockEntries(call)) \subseteq StockSimpleCovered
          /\ call.kind = "variation" =>
               /\ locals.mappings[locals.variable_ids[call.tmpl]].active
               /\ locals.mappings[locals.variable_ids[call.tmpl]]
                    .woo_product_type = "variable"
               /\ Range(StockEntries(call)) \subseteq
                    StockVariantsCovered(call.tmpl)

CronErrorsOf(instance) ==
    {x \in DOMAIN locals.log :
       /\ locals.log[x].instance_id = instance
       /\ locals.log[x].status = "error"
       /\ locals.log[x].sync_type = locals.entry}

\* C34: both cron entries take the connected, active instances one after
\* another; the cache of a run holds the mappings of its own instance as
\* they are when the run starts and its SKU index holds products of its own
\* shop; a run that raises leaves one error entry for its instance, and the
\* loop goes on: when the entry returns, every instance was run once, in
\* order.
C34_InstancesIsolated ==
    /\ locals.state = "run" =>
         /\ locals.cache =
              BuildInstanceCache(locals.table,
                                 locals.instances[locals.pos])
         /\ locals.woo_sku_index \subseteq
              CronShop(locals.instances[locals.pos])
    /\ locals.state # "search" =>
         /\ \A n \in CronInstances :
              (\E k \in DOMAIN locals.instances : locals.instances[k] = n)
                <=> (locals.records[n].state = "connected"
                     /\ locals.records[n].active)
         /\ \A j, k \in DOMAIN locals.instances :
              j < k => locals.instances[j] < locals.instances[k]
         /\ Len(locals.runs) <= Len(locals.instances)
         /\ \A k \in DOMAIN locals.runs :
              /\ locals.runs[k].instance_id = locals.instances[k]
              /\ locals.runs[k].cache.instance_id
                   \in {0, locals.instances[k]}
              /\ locals.runs[k].woo_sku_index \subseteq
                   CronShop(locals.instances[k])
              /\ Cardinality(CronErrorsOf(locals.instances[k])) =
                   IF locals.runs[k].outcome = "raised" THEN 1 ELSE 0
    /\ locals.state = "done" => Len(locals.runs) = Len(locals.instances)

\* The full sync of three instances returned: the first run raised in its
\* setup, the second raised later, the third returned with a cache unlike
\* the one of the second.
C34_Witness ==
    /\ locals.state = "done" /\ locals.entry = "full"
    /\ Len(locals.runs) = 3
    /\ locals.runs[1].outcome = "raised"
    /\ locals.runs[1].cache = NoCronCache
    /\ locals.runs[2].outcome = "raised"
    /\ locals.runs[2].cache.tmpl_map # {}
    /\ locals.runs[3].outcome = "returned"
    /\ locals.runs[3].cache.tmpl_map # locals.runs[2].cache.tmpl_map
    /\ locals.runs[3].woo_sku_index # {}

\* C35: between two templates of a chunk of a full sync, every entry of
\* tmpl_map is the TemplateMapping of its template in the store.
C35_CacheMatchesStore ==
    (mode = "full" /\ pc = "loop") =>
      \A t \in Templates :
        cache.tmpl_map[t] # NoMapping =>
          \E m \in MappingsOf(store, t) : m.id = cache.tmpl_map[t]

\* C36: whatever batch size the instance configures, a batch loop never
\* raises, and when it is through its calls carry the items of the list once
\* each, in order: every call but the last is full, and the calls together
\* hold as many items as the list.
C36_EveryItemBatched ==
    locals.fn = "batches" =>
      /\ locals.state # "raised"
      /\ locals.state = "done" =>
           IF locals.sent = << >>
           THEN locals.items = << >>
           ELSE /\ \A k \in 1..(Len(locals.sent) - 1) :
                     locals.sent[k] = locals.batch_size
                /\ (Len(locals.sent) - 1) * locals.batch_size
                     + locals.sent[Len(locals.sent)] = Len(locals.items)

\* C37: no variation batch call carries the id 0: not in an entry of an
\* update payload, not in a delete payload.
C37_SentinelNeverSent ==
    locals.fn = "variants" =>
      /\ locals.call.kind = "update" =>
           \A k \in DOMAIN locals.call.batch : locals.call.batch[k].id # 0
      /\ locals.call.kind = "delete" =>
           \A k \in DOMAIN locals.call.batch : locals.call.batch[k] # 0

\* The products the two workers created on the shop for the template.
RaceCreated ==
    {p \in locals.woo_products :
       \E w \in Workers : locals.workers[w].posted = p.id}

\* C38: when the full sync and the manual sync of the same unmapped
\* template have both ended, at most one product was created on the shop
\* for it, the store holds at most one TemplateMapping of it, and holds one
\* if a worker ended its unit with a commit.
C38_OneProductOneMapping ==
    (locals.fn = "race" /\ \A w \in Workers : locals.workers[w].pc = "done")
      => /\ Cardinality(RaceCreated) <= 1
         /\ Cardinality(locals.mappings) <= 1
         /\ (\E w \in Workers : locals.workers[w].outcome \in {"mapped"})
              => Cardinality(locals.mappings) = 1

\* The instances of the push for which sync_specific_product returned.
PushSucceeded ==
    {k \in DOMAIN locals.outcomes : locals.outcomes[k] = "returned"}

\* The connected, active instances of the database.
PushConnected ==
    {n \in CronInstances :
       locals.records[n].state = "connected" /\ locals.records[n].active}

\* C39: the push action ends with an error to the user exactly when no
\* instance is connected and active or sync_specific_product raised for each
\* of them; otherwise it ends with the success notification, whose count is
\* the number of instances for which it returned, every connected instance
\* having been tried once and each failure logged.
C39_PushRaisesIffNoneSucceeded ==
    (locals.fn = "push" /\ locals.state = "done") =>
      /\ locals.result.kind \in {"user_error", "notification"}
      /\ locals.result.kind = "user_error"
           <=> (PushConnected = {} \/ PushSucceeded = {})
      /\ PushConnected # {} =>
           /\ Len(locals.outcomes) = Cardinality(PushConnected)
           /\ Range(locals.woo_instances) = PushConnected
           /\ Len(locals.logged)
                = Len(locals.outcomes) - Cardinality(PushSucceeded)
      /\ locals.result.kind = "notification" =>
           locals.result.count = Cardinality(PushSucceeded)
      /\ (locals.result.kind = "user_error" /\ PushConnected # {}) =>
           locals.result.detail
             = locals.woo_instances[Len(locals.woo_instances)]

\* Three connected instances: the sync raised for the first and the last
\* and returned for the second; the user gets the notification for one.
C39_Witness ==
    /\ locals.fn = "push" /\ locals.state = "done"
    /\ locals.outcomes = <<"raised", "returned", "raised">>
    /\ locals.result = [kind |-> "notification", count |-> 1]
    /\ Len(locals.logged) = 2

====
